---------------------------- MODULE Spec2Model ----------------------------
(***************************************************************************)
(* Block-template assembly of src/src/miner.cpp: CreateNewBlock (mempool   *)
(* scan, selection loop, coinbase, final validity check) and the coinbase  *)
(* builder CreateCoinbaseTransaction.                                       *)
(*                                                                         *)
(* Amounts (CAmount) are counted in units of 1000 zatoshi so that the      *)
(* products value * confirmations of the priority rule stay inside the     *)
(* integers TLC can represent; sizes are bytes, heights are block heights. *)
(***************************************************************************)
EXTENDS Integers, Sequences, FiniteSets, Bags, TLC

(***************************************************************************)
(* Bounds of the model.                                                     *)
(***************************************************************************)
\* largest number of transactions in the mempool handed to one assembly
MaxMempool == 3
\* largest fee total handed to a stand-alone coinbase construction
MaxFees == 2

(***************************************************************************)
(* Program constants.                                                       *)
(***************************************************************************)
MAX_BLOCK_SIZE == 2000000
MAX_BLOCK_SIGOPS == 20000
DEFAULT_BLOCK_MAX_SIZE == MAX_BLOCK_SIZE
DEFAULT_BLOCK_PRIORITY_SIZE == DEFAULT_BLOCK_MAX_SIZE \div 2
DEFAULT_BLOCK_MIN_SIZE == 0
\* one coin, in amount units (100000000 zatoshi)
COIN == 100000
\* DEFAULT_FEE, in amount units (1000 zatoshi)
DEFAULT_FEE == 1
\* ::minRelayTxFee, in zatoshi per 1000 bytes
minRelayTxFee == 100
\* zatoshi per amount unit
ZatPerUnit == 1000
\* modulus of `unsigned int'.  TLC integers are 32-bit signed, so the
\* conversion int64 -> unsigned int is taken modulo 2^30 instead of 2^32:
\* a negative argument still becomes a value above MAX_BLOCK_SIZE and an
\* argument of 2^30 + k still wraps to k.
UIntMod == 1073741824
\* bytes the assembler reserves for the coinbase, and sigops it reserves
CoinbaseReserveSize == 1000
CoinbaseReserveSigOps == 100
\* height of the chain tip (pindexPrev->nHeight)
TipHeight == 200

Max(a, b) == IF a >= b THEN a ELSE b
Min(a, b) == IF a <= b THEN a ELSE b
\* C++ integer division truncates toward zero
TruncDiv(a, b) == IF a >= 0 THEN a \div b ELSE -((-a) \div b)

RECURSIVE SumSeq(_)
SumSeq(s) == IF s = <<>> THEN 0 ELSE Head(s) + SumSeq(Tail(s))


(***************************************************************************)
(* The transactions and coins of the model.                                 *)
(*                                                                         *)
(* A transaction is a record of what the assembler reads of it: its        *)
(* transparent inputs (outpoints <<txid, n>>, n counted from 1), the       *)
(* values of its transparent outputs, its serialized and modified size,    *)
(* its legacy and P2SH signature operations, the verdict of the contextual *)
(* input check, its Sapling and Orchard value balances, its joinsplits,    *)
(* its expiry height, and the administrator's priority and fee deltas     *)
(* recorded for it in the mempool.  Every transaction of the catalogue is  *)
(* final and none is a coinbase.                                            *)
(***************************************************************************)
MkTx(vin, vout, nTxSize, nModSize, sigops, p2sh, ok, vbSapling, vbOrchard, js, expiry, dPrio, dFee) ==
    [vin |-> vin, vout |-> vout, nTxSize |-> nTxSize, nModSize |-> nModSize,
     nLegacySigOps |-> sigops, nP2SHSigOps |-> p2sh, fContextualOk |-> ok,
     valueBalanceSapling |-> vbSapling, valueBalanceOrchard |-> vbOrchard,
     vJoinSplit |-> js, nExpiryHeight |-> expiry,
     dPriorityDelta |-> dPrio, nFeeDelta |-> dFee]

\* the coins of pcoinsTip: transaction id |-> output values and height
ChainCoins ==
    (101 :> [vout |-> <<100000, 100000>>, nHeight |-> 101]) @@
    (102 :> [vout |-> <<3000, 3000, 3000>>, nHeight |-> 200]) @@
    (103 :> [vout |-> <<200000>>, nHeight |-> 1]) @@
    (104 :> [vout |-> <<700>>, nHeight |-> 200]) @@
    (105 :> [vout |-> <<150000>>, nHeight |-> 101]) @@
    \* ten old coins of about 50 coins each, one for each high-priority
    \* transaction of the priority-to-fee scenario
    (111 :> [vout |-> <<5000000>>, nHeight |-> 1]) @@
    (112 :> [vout |-> <<5010000>>, nHeight |-> 1]) @@
    (113 :> [vout |-> <<5020000>>, nHeight |-> 1]) @@
    (114 :> [vout |-> <<5030000>>, nHeight |-> 1]) @@
    (115 :> [vout |-> <<5040000>>, nHeight |-> 1]) @@
    (116 :> [vout |-> <<5050000>>, nHeight |-> 1]) @@
    (117 :> [vout |-> <<5060000>>, nHeight |-> 1]) @@
    (118 :> [vout |-> <<5070000>>, nHeight |-> 1]) @@
    (119 :> [vout |-> <<5080000>>, nHeight |-> 1]) @@
    (120 :> [vout |-> <<5090000>>, nHeight |-> 1]) @@
    \* a young coin for the fee transaction; the coins of the sigops scenario,
    \* the older one for the transaction with MAX_BLOCK_SIGOPS sigops, which
    \* is therefore popped first
    (121 :> [vout |-> <<3000>>, nHeight |-> 200]) @@
    (122 :> [vout |-> <<3000>>, nHeight |-> 100]) @@
    (123 :> [vout |-> <<3000>>, nHeight |-> 200])

\* the transactions a mempool may hold; the index is the transaction id and
\* also the position in the iteration order of mempool.mapTx
TxCatalogue == <<
    (* 1  A: spends a chain coin, two outputs *)
    MkTx(<< <<101, 1>> >>, <<60000, 39990>>, 250, 100, 2, 0, TRUE, 0, 0, <<>>, 0, 0, 0),
    (* 2  B: child of A *)
    MkTx(<< <<1, 1>> >>, <<59980>>, 200, 100, 1, 0, TRUE, 0, 0, <<>>, 0, 0, 0),
    (* 3  C: child of B and of A *)
    MkTx(<< <<2, 1>>, <<1, 2>> >>, <<99937>>, 300, 100, 1, 0, TRUE, 0, 0, <<>>, 0, 0, 0),
    (* 4  D: spends the same chain coin as A *)
    MkTx(<< <<101, 1>> >>, <<99995>>, 250, 100, 1, 0, TRUE, 0, 0, <<>>, 0, 0, 0),
    (* 5  E: child of A with a second input that exists nowhere *)
    MkTx(<< <<1, 2>>, <<999, 1>> >>, <<10>>, 200, 100, 1, 0, TRUE, 0, 0, <<>>, 0, 0, 0),
    (* 6  F: large, many sigops, takes 2 out of the Orchard pool *)
    MkTx(<< <<102, 1>> >>, <<2902>>, 700, 500, 10, 0, TRUE, 0, 2, <<>>, 0, 0, 0),
    (* 7  G: nearly all the legacy sigops of a block *)
    MkTx(<< <<102, 2>> >>, <<2950>>, 200, 100, 19890, 0, TRUE, 0, 0, <<>>, 0, 0, 0),
    (* 8  H: nearly all the sigops of a block, as P2SH sigops *)
    MkTx(<< <<102, 3>> >>, <<2990>>, 150, 100, 1, 19895, TRUE, 0, 0, <<>>, 0, 0, 0),
    (* 9  I: fails the contextual input check *)
    MkTx(<< <<104, 1>> >>, <<690>>, 200, 100, 1, 0, FALSE, 0, 0, <<>>, 0, 0, 0),
    (* 10 J: fully shielded, takes 1 out of the Sapling pool *)
    MkTx(<<>>, <<>>, 500, 500, 0, 0, TRUE, 1, 0, <<>>, 0, 0, 0),
    (* 11 K: pays no fee, low priority *)
    MkTx(<< <<104, 1>> >>, <<700>>, 200, 100, 1, 0, TRUE, 0, 0, <<>>, 0, 0, 0),
    (* 12 L: old coin; takes 3 out of the Sprout pool, puts 199990 into Orchard *)
    MkTx(<< <<103, 1>> >>, <<>>, 400, 200, 1, 0, TRUE, 0, -199990,
         << [vpub_old |-> 0, vpub_new |-> 3] >>, 0, 0, 0),
    (* 13 M: pays no fee, high priority, administrator fee delta 7 *)
    MkTx(<< <<105, 1>> >>, <<150000>>, 250, 100, 1, 0, TRUE, 0, 0, <<>>, 0, 0, 7),
    (* 14 N: expired at height 150 *)
    MkTx(<< <<105, 1>> >>, <<149990>>, 250, 100, 1, 0, TRUE, 0, 0, <<>>, 150, 0, 0)
>>

\* a high-priority transaction of 10 kB that pays no fee
PriorityTx(coin, value) ==
    MkTx(<< <<coin, 1>> >>, <<value>>, 10000, 9850, 1, 0, TRUE, 0, 0, <<>>, 0, 0, 0)

\* the transactions of the two scenarios; the ids go on from the catalogue
ScenarioCatalogue == <<
    (* 15..24: ten high-priority zero-fee transactions, 100 kB in all *)
    PriorityTx(111, 5000000), PriorityTx(112, 5010000), PriorityTx(113, 5020000),
    PriorityTx(114, 5030000), PriorityTx(115, 5040000), PriorityTx(116, 5050000),
    PriorityTx(117, 5060000), PriorityTx(118, 5070000), PriorityTx(119, 5080000),
    PriorityTx(120, 5090000),
    (* 25: 1 kB, low priority, pays a fee of 1000 units *)
    MkTx(<< <<121, 1>> >>, <<2000>>, 1000, 850, 1, 0, TRUE, 0, 0, <<>>, 0, 0, 0),
    (* 26: MAX_BLOCK_SIGOPS legacy sigops, pays a fee of 100 units *)
    MkTx(<< <<122, 1>> >>, <<2900>>, 400, 250, MAX_BLOCK_SIGOPS, 0, TRUE, 0, 0, <<>>, 0, 0, 0),
    (* 27: tiny, pays a fee of 10 units *)
    MkTx(<< <<123, 1>> >>, <<2990>>, 100, 50, 1, 0, TRUE, 0, 0, <<>>, 0, 0, 0),
    (* 28: spends both outputs of A *)
    MkTx(<< <<1, 1>>, <<1, 2>> >>, <<99980>>, 350, 150, 1, 0, TRUE, 0, 0, <<>>, 0, 0, 0)
>>

\* the ids of the transactions a mempool of the model is drawn from
TxIds == 1..Len(TxCatalogue)
\* every id, those of the scenarios included
AllTxIds == 1..(Len(TxCatalogue) + Len(ScenarioCatalogue))
Tx(id) ==
    IF id <= Len(TxCatalogue) THEN TxCatalogue[id]
    ELSE ScenarioCatalogue[id - Len(TxCatalogue)]

(***************************************************************************)
(* CTransaction and CCoinsViewCache, as far as CreateNewBlock calls them.  *)
(* A view is the set of unspent outpoints.                                  *)
(***************************************************************************)
RECURSIVE SumJsOld(_)
SumJsOld(js) == IF js = <<>> THEN 0 ELSE Head(js).vpub_old + SumJsOld(Tail(js))
RECURSIVE SumJsNew(_)
SumJsNew(js) == IF js = <<>> THEN 0 ELSE Head(js).vpub_new + SumJsNew(Tail(js))

\* tx.GetValueOut(): transparent outputs plus what enters the shielded pools
GetValueOut(tx) ==
    SumSeq(tx.vout)
    + (IF tx.valueBalanceSapling <= 0 THEN -tx.valueBalanceSapling ELSE 0)
    + (IF tx.valueBalanceOrchard <= 0 THEN -tx.valueBalanceOrchard ELSE 0)
    + SumJsOld(tx.vJoinSplit)

\* tx.GetShieldedValueIn(): what leaves the shielded pools
GetShieldedValueIn(tx) ==
    (IF tx.valueBalanceSapling >= 0 THEN tx.valueBalanceSapling ELSE 0)
    + (IF tx.valueBalanceOrchard >= 0 THEN tx.valueBalanceOrchard ELSE 0)
    + SumJsNew(tx.vJoinSplit)

\* value of output n of transaction hash, in the chain or in the catalogue
OutValue(op) ==
    IF op[1] \in DOMAIN ChainCoins THEN ChainCoins[op[1]].vout[op[2]]
    ELSE Tx(op[1]).vout[op[2]]

\* coins->nHeight: the height of a chain coin; UpdateCoins records the
\* outputs of a template transaction at the target height
CoinHeight(hash) ==
    IF hash \in DOMAIN ChainCoins THEN ChainCoins[hash].nHeight ELSE TipHeight + 1

\* CCoinsViewCache view(pcoinsTip): every output of every chain coin
PcoinsTip ==
    {op \in (DOMAIN ChainCoins) \X (1..3) : op[2] <= Len(ChainCoins[op[1]].vout)}

\* CFeeRate(nFeePaid, nSize), in zatoshi per 1000 bytes
CFeeRate(nFeePaid, nSize) ==
    IF nSize > 0 THEN TruncDiv(nFeePaid * ZatPerUnit * 1000, nSize) ELSE 0

\* tx.ComputePriority(dPriorityInputs, nTxSize); the catalogue keeps the
\* quotient of the floating-point division exact
ComputePriority(tx, dPriorityInputs) ==
    IF tx.nModSize = 0 THEN 0 ELSE TruncDiv(dPriorityInputs, tx.nModSize)

\* AllowFree(dPriority)
AllowFree(dPriority) == dPriority > (COIN * 144) \div 250

\* IsExpiredTx(tx, nHeight)
IsExpiredTx(tx, nHeight) == tx.nExpiryHeight # 0 /\ nHeight > tx.nExpiryHeight


(***************************************************************************)
(* Inputs of an assembly.                                                   *)
(***************************************************************************)
\* -blockmaxsize, -blockprioritysize, -blockminsize as GetArg returns them
MkArgs(maxsize, prioritysize, minsize) ==
    [blockmaxsize |-> maxsize, blockprioritysize |-> prioritysize, blockminsize |-> minsize]

\* an optional amount (std::optional<CAmount>)
Some(v) == [has |-> TRUE, v |-> v]
None == [has |-> FALSE, v |-> 0]

\* the pool totals the tip carries
MkTip(sprout, sapling, orchard) ==
    [nChainSproutValue |-> sprout, nChainSaplingValue |-> sapling, nChainOrchardValue |-> orchard]

\* the size options and tips an assembly is run with
EnvSet ==
    { [args |-> MkArgs(DEFAULT_BLOCK_MAX_SIZE, DEFAULT_BLOCK_PRIORITY_SIZE, DEFAULT_BLOCK_MIN_SIZE),
       tip |-> MkTip(Some(3), Some(2), Some(1))],
      [args |-> MkArgs(DEFAULT_BLOCK_MAX_SIZE, DEFAULT_BLOCK_PRIORITY_SIZE, DEFAULT_BLOCK_MIN_SIZE),
       tip |-> MkTip(Some(0), Some(0), Some(0))],
      [args |-> MkArgs(1500, 0, 0),
       tip |-> MkTip(Some(3), Some(2), Some(1))],
      [args |-> MkArgs(3000, 1300, 1300),
       tip |-> MkTip(Some(3), Some(2), None)],
      [args |-> MkArgs(500, 2000, 1300),
       tip |-> MkTip(Some(0), Some(0), Some(0))] }

\* the mempool of the priority-to-fee scenario: the ten high-priority
\* transactions and the fee transaction
SwitchPriorityTxs == {id \in AllTxIds : id > Len(TxCatalogue) /\ Tx(id).nTxSize = 10000}
SwitchFeeTx == CHOOSE id \in AllTxIds : id > Len(TxCatalogue) /\ Tx(id).nTxSize = 1000
SwitchMempool == SwitchPriorityTxs \cup {SwitchFeeTx}
\* -blockprioritysize of 100 kB, -blockminsize of 0
SwitchArgs == MkArgs(DEFAULT_BLOCK_MAX_SIZE, 100000, 0)

\* the mempool of the sigops scenario
SigOpsTx ==
    CHOOSE id \in AllTxIds : id > Len(TxCatalogue) /\ Tx(id).nLegacySigOps = MAX_BLOCK_SIGOPS
TinyTx == CHOOSE id \in AllTxIds : id > Len(TxCatalogue) /\ Tx(id).nTxSize = 100
SigOpsMempool == {SigOpsTx, TinyTx}

\* the mempool with a transaction that spends two outputs of one parent
TwoOutputsTx == CHOOSE id \in AllTxIds : id > Len(TxCatalogue) /\ Tx(id).nTxSize = 350
TwoOutputsMempool == {1, TwoOutputsTx}

\* the mempools, size options and tips of the scenarios
ScenarioSet ==
    { [mempool |-> SwitchMempool, args |-> SwitchArgs,
       tip |-> MkTip(Some(3), Some(2), Some(1))],
      [mempool |-> SigOpsMempool,
       args |-> MkArgs(DEFAULT_BLOCK_MAX_SIZE, DEFAULT_BLOCK_PRIORITY_SIZE,
                       DEFAULT_BLOCK_MIN_SIZE),
       tip |-> MkTip(Some(3), Some(2), Some(1))],
      [mempool |-> TwoOutputsMempool,
       args |-> MkArgs(DEFAULT_BLOCK_MAX_SIZE, DEFAULT_BLOCK_PRIORITY_SIZE,
                       DEFAULT_BLOCK_MIN_SIZE),
       tip |-> MkTip(Some(3), Some(2), Some(1))] }

\* what the chain parameters answer at the target height
\* heartwood is "inactive", "activation" (the target height is Heartwood's
\* activation height) or "active" (activated below the target height);
\* prevBranchId is CurrentEpochBranchId at the tip's height
MkParams(canopy, lastFR, zip209, nu5, subsidy, streams, heartwood, prevBranchId) ==
    [fCanopy |-> canopy, nLastFoundersRewardBlockHeight |-> lastFR,
     fZIP209Enabled |-> zip209, fNU5 |-> nu5,
     nBlockSubsidy |-> subsidy, fundingStreams |-> streams,
     heartwood |-> heartwood, prevBranchId |-> prevBranchId,
     fNU5Next |-> FALSE]

FS(recipient, value) == [recipient |-> recipient, value |-> value]

ChainParamsSet ==
    { \* founders' reward era before Heartwood, no ZIP 209
      MkParams(FALSE, TipHeight + 100, FALSE, FALSE, 1250003, <<>>, "inactive", "sapling"),
      \* Canopy and NU5 with three funding streams, ZIP 209; every upgrade
      \* from Heartwood on activates at the target height (a regtest chain)
      MkParams(TRUE, TipHeight - 100, TRUE, TRUE, 625000,
               <<FS("script", 43750), FS("sapling", 31250), FS("script", 50000)>>,
               "activation", "blossom"),
      \* founders' reward over, Heartwood active, Canopy not active, ZIP 209
      MkParams(FALSE, TipHeight - 100, TRUE, FALSE, 625000, <<>>, "active", "heartwood"),
      \* founders' reward era, the target height activates Heartwood
      MkParams(FALSE, TipHeight + 100, TRUE, FALSE, 625000, <<>>, "activation", "blossom") }

MinerAddresses == {"script", "sapling", "orchard"}

(***************************************************************************)
(* State.                                                                   *)
(***************************************************************************)
VARIABLES
    pc,                 \* where the call stands
    mempool,            \* mempool.mapTx: the ids of the transactions it holds
    mapArgs,            \* the three size options
    pindexPrev,         \* chainActive.Tip(): the pool totals it carries
    chainparams,        \* the chain parameters of the call
    next_cb_mtx,        \* whether the caller supplied a coinbase
    nBlockMaxSize, nBlockPrioritySize, nBlockMinSize,
    view,               \* CCoinsViewCache view(pcoinsTip)
    mi,                 \* the mempool ids the scan has not visited yet
    vOrphan,            \* the orphan records, by address
    mapDependers,       \* txid |-> addresses of the orphans waiting for it
    vecPriority,        \* the selection queue, a bag of TxPriority tuples
    nBlockSize, nBlockTx, nBlockSigOps, fSortedByFee,
    sproutValue, saplingValue, orchardValue, monitoring_pool_balances,
    vtx, vTxFees, vTxSigOps, nFees,   \* the template and the fee total
    coinbase,           \* the coinbase transaction built or supplied
    minerAddress,       \* the flavour of the miner address of the call
    exception,          \* the exception that ended the call, "none" if none
    validity,           \* the verdict of TestBlockValidity, "untested" before it
    nCtxFree,           \* how often the coinbase builder freed its proving context
    hashChainHistoryRoot,   \* pblocktemplate->hashChainHistoryRoot
    hashAuthDataRoot,       \* pblocktemplate->hashAuthDataRoot
    hashBlockCommitments,   \* pblock->hashBlockCommitments
    hashMerkleRoot,         \* pblock->hashMerkleRoot
    minerPc,            \* where the mining thread is
    maybeMinerAddress,  \* what the AddressForMining signal gave
    solver,             \* -equihashsolver
    network,            \* MiningRequiresPeers() and MineBlocksOnDemand()
    cancelSolver,       \* the flag the NotifyBlockTip listener raises
    chainTip,           \* chainActive.Tip(), 0 while there is none
    vNodesEmpty,        \* vNodes.empty()
    fInitialBlockDownload,  \* what IsInitialBlockDownload answers
    minerPindexPrev,    \* the thread's pindexPrev
    nNonce,             \* the low 16 bits of pblock->nNonce
    nExtraNonce,        \* the thread's extra-nonce counter
    hashPrevBlock,      \* pblock->hashPrevBlock, 0 before a template is built
    hashPrevBlockStatic,    \* the static hashPrevBlock of IncrementExtraNonce
    lastFound,          \* what the last ProcessBlockFound did
    lastGate,           \* outcome of the last selection step, and its transaction
    noncePc,            \* where the nonce search of one template stands
    randHash,           \* what GetRandHash returned for the template
    pblockNonce,        \* pblock->nNonce, all 256 bits
    nSolverRuns,        \* the solver runs on the template so far
    timePc,             \* where the thread stands, as far as time matters
    nMockTime,          \* the mock time of util/time.cpp, 0 when unset
    clock,              \* time(NULL)
    nTicks,             \* how often the clock has advanced
    medianTimePast,     \* pindexPrev->GetMedianTimePast()
    timeParams,         \* what the consensus parameters say about time
    pblockTime,         \* pblock->nTime
    pblockBits,         \* pblock->nBits
    hashTarget,         \* the thread's hashTarget
    lastCheck,          \* the last test of a solution against the target
    nStart,             \* the thread's nStart
    nTransactionsUpdated,       \* mempool.GetTransactionsUpdated()
    nTransactionsUpdatedLast,   \* the thread's copy of it
    lastBreak,          \* which check ended the last search, if one did
    xnPc,               \* per caller: where its call of IncrementExtraNonce stands
    xnDiffers,          \* per caller: what its comparison of line 857 gave
    nExtraNonceOf,      \* per caller: its nExtraNonce
    hashPrevBlockShared,    \* the static hashPrevBlock, one for all callers
    templatePrevOf,     \* per caller: pblock->hashPrevBlock of its template
    prevHash,           \* the hash of the chain tip
    nCallsSince,        \* per caller: its calls since its hashPrevBlock changed
    lockPc,             \* per thread: where it stands among the lock sites
    m_cs,               \* per mining thread: the threads that hold its m_cs
    csHeld,             \* cs_main and cs_vNodes: the threads that hold each
    cancelSolverOf,     \* per mining thread: its cancelSolver
    listenerOf          \* per thread: whose tip listener it is running, 0 if none

vars == <<pc, mempool, mapArgs, pindexPrev, chainparams, next_cb_mtx,
          nBlockMaxSize, nBlockPrioritySize, nBlockMinSize, view, mi,
          vOrphan, mapDependers, vecPriority,
          nBlockSize, nBlockTx, nBlockSigOps, fSortedByFee,
          sproutValue, saplingValue, orchardValue, monitoring_pool_balances,
          vtx, vTxFees, vTxSigOps, nFees, coinbase, minerAddress, exception, validity, nCtxFree, lastGate,
          hashChainHistoryRoot, hashAuthDataRoot, hashBlockCommitments, hashMerkleRoot,
          minerPc, maybeMinerAddress, solver, network, cancelSolver, chainTip,
          vNodesEmpty, fInitialBlockDownload, minerPindexPrev, nNonce, nExtraNonce, hashPrevBlock,
          hashPrevBlockStatic, lastFound,
          noncePc, randHash, pblockNonce, nSolverRuns,
          timePc, nMockTime, clock, nTicks, medianTimePast, timeParams, pblockTime,
          pblockBits, hashTarget, lastCheck, nStart, nTransactionsUpdated,
          nTransactionsUpdatedLast, lastBreak,
          xnPc, xnDiffers, nExtraNonceOf, hashPrevBlockShared, templatePrevOf, prevHash,
          nCallsSince,
          lockPc, m_cs, csHeld, cancelSolverOf, listenerOf>>

\* the header fields CreateNewBlock fills in at lines 745-765
headerVars == <<hashChainHistoryRoot, hashAuthDataRoot, hashBlockCommitments, hashMerkleRoot>>

\* the state of the assembler and of the mining thread
mainVars ==
    <<pc, mempool, mapArgs, pindexPrev, chainparams, next_cb_mtx,
      nBlockMaxSize, nBlockPrioritySize, nBlockMinSize, view, mi,
      vOrphan, mapDependers, vecPriority,
      nBlockSize, nBlockTx, nBlockSigOps, fSortedByFee,
      sproutValue, saplingValue, orchardValue, monitoring_pool_balances,
      vtx, vTxFees, vTxSigOps, nFees, coinbase, minerAddress, exception,
      validity, nCtxFree, lastGate, headerVars,
      minerPc, maybeMinerAddress, solver, network, cancelSolver, chainTip,
      vNodesEmpty, fInitialBlockDownload, minerPindexPrev, nNonce,
      nExtraNonce, hashPrevBlock, hashPrevBlockStatic, lastFound>>

\* the 256-bit nonce of a template and its search
nonceVars == <<noncePc, randHash, pblockNonce, nSolverRuns>>

\* the clock, the header time and the staleness check
timeVars ==
    <<timePc, nMockTime, clock, nTicks, medianTimePast, timeParams, pblockTime,
      pblockBits, hashTarget, lastCheck, nStart, nTransactionsUpdated,
      nTransactionsUpdatedLast, lastBreak>>

\* the callers of IncrementExtraNonce
extraNonceVars ==
    <<xnPc, xnDiffers, nExtraNonceOf, hashPrevBlockShared, templatePrevOf, prevHash,
      nCallsSince>>

\* the cancellation flags of the mining threads and the locks around them
lockVars == <<lockPc, m_cs, csHeld, cancelSolverOf, listenerOf>>

\* the state of the parts that are modelled on their own
sideVars == <<nonceVars, timeVars, extraNonceVars, lockVars>>

\* the state of BitcoinMiner and of the chain and network it watches
minerVars == <<sideVars, minerPc, maybeMinerAddress, solver, network, cancelSolver, chainTip,
               vNodesEmpty, fInitialBlockDownload, minerPindexPrev, nNonce, nExtraNonce, hashPrevBlock,
          hashPrevBlockStatic, lastFound>>

nHeight == TipHeight + 1

\* variant of AccessCoins for a view backed by the mempool as well: the
\* outputs of a mempool transaction count as coins
AccessCoinsMemPool(v, hash) ==
    {op \in v : op[1] = hash}
    \cup (IF hash \in mempool THEN {<<hash, n>> : n \in 1..Len(Tx(hash).vout)} ELSE {})

\* view.AccessCoins(hash): the unspent outputs the view holds for hash
AccessCoins(v, hash) == {op \in v : op[1] = hash}

\* view.HaveCoins(hash)
HaveCoins(v, hash) == AccessCoins(v, hash) # {}

\* view.HaveInputs(tx): every transparent input is an available output
HaveInputs(v, tx) ==
    \A i \in 1..Len(tx.vin) : tx.vin[i] \in AccessCoins(v, tx.vin[i][1])

\* view.GetValueIn(tx)
GetValueIn(v, tx) ==
    SumSeq([i \in 1..Len(tx.vin) |-> OutValue(tx.vin[i])]) + GetShieldedValueIn(tx)

\* the variant that adds the outputs and leaves the inputs unspent
UpdateCoinsNoSpend(id, v) == v \cup {<<id, n>> : n \in 1..Len(Tx(id).vout)}

\* UpdateCoins(tx, view, nHeight): spend the inputs, add the outputs
UpdateCoins(id, v) ==
    (v \ {Tx(id).vin[i] : i \in 1..Len(Tx(id).vin)})
    \cup {<<id, n>> : n \in 1..Len(Tx(id).vout)}


(***************************************************************************)
(* The selection queue.  std::make_heap, push_heap and pop_heap keep a     *)
(* maximum of the comparator at the front; which of several maxima is at   *)
(* the front is left to the library, so the front is any maximum.          *)
(***************************************************************************)
TxPriority(dPriority, feeRate, feePaid, ptx) ==
    [dPriority |-> dPriority, feeRate |-> feeRate, feePaid |-> feePaid, ptx |-> ptx]

\* the variant that orders by fee rate whatever the mode
TxPriorityCompareFeeOnly(byFee, a, b) ==
    IF a.feeRate = b.feeRate THEN a.dPriority < b.dPriority
    ELSE a.feeRate < b.feeRate

\* the variant that orders by priority whatever the mode
TxPriorityCompareByPriority(byFee, a, b) ==
    IF a.dPriority = b.dPriority THEN a.feeRate < b.feeRate
    ELSE a.dPriority < b.dPriority

\* TxPriorityCompare(byFee)(a, b): a orders before b
TxPriorityCompare(byFee, a, b) ==
    IF byFee
    THEN IF a.feeRate = b.feeRate THEN a.dPriority < b.dPriority
         ELSE a.feeRate < b.feeRate
    ELSE IF a.dPriority = b.dPriority THEN a.feeRate < b.feeRate
         ELSE a.dPriority < b.dPriority

\* the tuples that may be at vecPriority.front()
Front(queue, byFee) ==
    {e \in BagToSet(queue) : \A o \in BagToSet(queue) : ~TxPriorityCompare(byFee, e, o)}

(***************************************************************************)
(* Block size options, lines 388-401.                                       *)
(***************************************************************************)
\* conversion of GetArg's int64 to unsigned int
ToUInt(x) == x % UIntMod

\* the variant without the floor of 1000 on the maximum size
ClampBlockSizesNoFloor(args) ==
    LET maxSize == Min(MAX_BLOCK_SIZE - 1000, ToUInt(args.blockmaxsize))
    IN  [nBlockMaxSize |-> maxSize,
         nBlockPrioritySize |-> Min(maxSize, ToUInt(args.blockprioritysize)),
         nBlockMinSize |-> Min(maxSize, ToUInt(args.blockminsize))]

\* lines 388-401
ClampBlockSizes(args) ==
    LET maxSize == Max(1000, Min(MAX_BLOCK_SIZE - 1000, ToUInt(args.blockmaxsize)))
    IN  [nBlockMaxSize |-> maxSize,
         nBlockPrioritySize |-> Min(maxSize, ToUInt(args.blockprioritysize)),
         nBlockMinSize |-> Min(maxSize, ToUInt(args.blockminsize))]

(***************************************************************************)
(* The mempool scan, lines 430-509.                                         *)
(***************************************************************************)
\* an orphan record as COrphan(ptx) constructs it
COrphan(ptx) ==
    [ptx |-> ptx, setDependsOn |-> {}, feeRate |-> 0, feePaid |-> 0, dPriority |-> 0,
     live |-> TRUE]

\* the loop over tx.vin from input i on: acc collects whether an orphan
\* record was made, the parents registered, the priority and value sums,
\* and whether an input was found nowhere (the loop breaks there)
RECURSIVE ScanInputs(_, _, _, _, _)
ScanInputs(tx, i, acc, v, mp) ==
    IF i > Len(tx.vin) THEN acc
    ELSE LET txin == tx.vin[i]
             hash == txin[1]
         IN  IF ~HaveCoins(v, hash)
             THEN IF hash \notin mp
                  THEN [acc EXCEPT !.fMissingInputs = TRUE]
                  ELSE ScanInputs(tx, i + 1,
                         [acc EXCEPT !.fOrphan = TRUE,
                                     !.registered = Append(@, hash),
                                     !.nTotalIn = @ + Tx(hash).vout[txin[2]]],
                         v, mp)
             ELSE LET nValueIn == OutValue(txin)
                      nConf == nHeight - CoinHeight(hash)
                  IN  ScanInputs(tx, i + 1,
                         [acc EXCEPT !.nTotalIn = @ + nValueIn,
                                     !.dPriority = @ + nValueIn * nConf],
                         v, mp)

ScanStart ==
    [fOrphan |-> FALSE, registered |-> <<>>, nTotalIn |-> 0, dPriority |-> 0,
     fMissingInputs |-> FALSE]

\* mapDependers[hash].push_back(porphan) for every parent registered
RECURSIVE Register(_, _, _)
Register(deps, registered, addr) ==
    IF registered = <<>> THEN deps
    ELSE Register([deps EXCEPT ![Head(registered)] = Append(@, addr)],
                  Tail(registered), addr)

SeqToSet(s) == {s[i] : i \in 1..Len(s)}

\* the addresses vOrphan.push_back may give the new record: a fresh one, or
\* the one of a record popped before (its memory was returned to the heap)
NewOrphanAddrs(orphans) ==
    {Len(orphans) + 1} \cup {a \in 1..Len(orphans) : ~orphans[a].live}

StoreOrphan(orphans, addr, rec) ==
    IF addr = Len(orphans) + 1 THEN Append(orphans, rec)
    ELSE [orphans EXCEPT ![addr] = rec]


(***************************************************************************)
(* CreateNewBlock.                                                          *)
(***************************************************************************)
\* uint256().SetNull()
NullHash == <<"null">>

\* an unsigned int of 32 bits, as its two halves of 16 bits
UInt32(hi, lo) == [hi |-> hi, lo |-> lo]
NoNetwork == [fMiningRequiresPeers |-> FALSE, fMineBlocksOnDemand |-> FALSE]
\* a block index entry: the hash stands for the entry, 0 is no entry
BlockIndex(hash, height) == [hash |-> hash, nHeight |-> height]
NoFound == [fStale |-> FALSE, fBlockFound |-> FALSE, fProcessNewBlock |-> FALSE,
            ret |-> FALSE]

\* a 256-bit value: 16 limbs of 16 bits, the least significant first
Uint256Zero == [i \in 1..16 |-> 0]

\* no nonce is searched
NonceIdle ==
    /\ noncePc = "idle"
    /\ randHash = Uint256Zero
    /\ pblockNonce = Uint256Zero
    /\ nSolverRuns = 0

\* no solution has been tested against the target
NoCheck == [fChecked |-> FALSE, hashTarget |-> <<>>, fAbove |-> FALSE, fSubmitted |-> FALSE]

\* no thread reads the clock
TimeIdle ==
    /\ timePc = "idle"
    /\ nMockTime = 0
    /\ clock = 0
    /\ nTicks = 0
    /\ medianTimePast = 0
    /\ timeParams = [fFutureTimestampSoftFork |-> FALSE, fMinDifficulty |-> FALSE]
    /\ pblockTime = 0
    /\ pblockBits = <<>>
    /\ hashTarget = <<>>
    /\ lastCheck = NoCheck
    /\ nStart = 0
    /\ nTransactionsUpdated = 0
    /\ nTransactionsUpdatedLast = 0
    /\ lastBreak = "none"

\* nothing calls IncrementExtraNonce
ExtraNonceIdle ==
    /\ xnPc = <<>>
    /\ xnDiffers = <<>>
    /\ nExtraNonceOf = <<>>
    /\ hashPrevBlockShared = 0
    /\ templatePrevOf = <<>>
    /\ prevHash = 0
    /\ nCallsSince = <<>>

\* no thread is at a lock site
LockIdle ==
    /\ lockPc = <<>>
    /\ m_cs = <<>>
    /\ csHeld = <<>>
    /\ cancelSolverOf = <<>>
    /\ listenerOf = <<>>

\* the parts that are modelled on their own are at rest
SideIdle == NonceIdle /\ TimeIdle /\ ExtraNonceIdle /\ LockIdle

\* no mining thread runs
MinerIdle ==
    /\ minerPc = "idle"
    /\ maybeMinerAddress = "none"
    /\ solver = "default"
    /\ network = NoNetwork
    /\ cancelSolver = FALSE
    /\ chainTip = 1
    /\ vNodesEmpty = FALSE
    /\ fInitialBlockDownload = FALSE
    /\ minerPindexPrev = BlockIndex(0, 0)
    /\ nNonce = 0
    /\ nExtraNonce = UInt32(0, 0)
    /\ hashPrevBlock = 0
    /\ hashPrevBlockStatic = 0
    /\ lastFound = NoFound
NoCoinbase == [kind |-> "none"]
DummyTx == [kind |-> "dummy", id |-> 0]
CoinbaseTx == [kind |-> "coinbase", id |-> 0]
MempoolTx(id) == [kind |-> "mempool", id |-> id]
NoGate == [gate |-> "none", tx |-> 0]

Init ==
    /\ pc = "start"
    /\ \/ /\ mempool \in {S \in SUBSET TxIds : Cardinality(S) <= MaxMempool}
          /\ \E env \in EnvSet : mapArgs = env.args /\ pindexPrev = env.tip
       \/ \E sc \in ScenarioSet :
            mempool = sc.mempool /\ mapArgs = sc.args /\ pindexPrev = sc.tip
    /\ chainparams = MkParams(FALSE, 0, FALSE, FALSE, 0, <<>>, "inactive", "sapling")
    /\ next_cb_mtx = FALSE
    /\ nBlockMaxSize = 0 /\ nBlockPrioritySize = 0 /\ nBlockMinSize = 0
    /\ view = {}
    /\ mi = {}
    /\ vOrphan = <<>>
    /\ mapDependers = [h \in AllTxIds |-> <<>>]
    /\ vecPriority = EmptyBag
    /\ nBlockSize = 0 /\ nBlockTx = 0 /\ nBlockSigOps = 0 /\ fSortedByFee = FALSE
    /\ sproutValue = 0 /\ saplingValue = 0 /\ orchardValue = 0
    /\ monitoring_pool_balances = TRUE
    /\ vtx = <<>> /\ vTxFees = <<>> /\ vTxSigOps = <<>> /\ nFees = 0
    /\ coinbase = NoCoinbase
    /\ minerAddress = "none"
    /\ exception = "none"
    /\ validity = "untested"
    /\ nCtxFree = 0
    /\ hashChainHistoryRoot = NullHash /\ hashAuthDataRoot = NullHash
    /\ hashBlockCommitments = NullHash
    /\ hashMerkleRoot = NullHash
    /\ MinerIdle
    /\ SideIdle
    /\ lastGate = NoGate

\* the variant that scans the mempool whether or not a coinbase was supplied
MempoolToScanAlways(cb, mp) == mp

\* lines 427-431: the transactions the scan visits; with a coinbase supplied
\* the loop over mempool.mapTx is not entered
MempoolToScan(cb, mp) == IF cb THEN {} ELSE mp

\* the chains an assembly over mempool mp is run on: the chain at
\* Heartwood's activation height without NU5 is run with at most one
\* transaction in the mempool
AssemblyParams(mp) ==
    {cp \in ChainParamsSet :
       cp.heartwood = "activation" /\ ~cp.fNU5 => Cardinality(mp) <= 1}

\* lines 370-429: the dummy coinbase, the size options, the view; a caller
\* that supplies a coinbase skips the mempool scan
Begin ==
    /\ pc = "start"
    /\ \E cp \in AssemblyParams(mempool), cb \in BOOLEAN :
         /\ chainparams' = cp
         /\ next_cb_mtx' = cb
         /\ mi' = MempoolToScan(cb, mempool)
    /\ vtx' = <<DummyTx>>
    /\ vTxFees' = <<-1>>
    /\ vTxSigOps' = <<-1>>
    /\ LET sizes == ClampBlockSizes(mapArgs)
       IN  /\ nBlockMaxSize' = sizes.nBlockMaxSize
           /\ nBlockPrioritySize' = sizes.nBlockPrioritySize
           /\ nBlockMinSize' = sizes.nBlockMinSize
    /\ nFees' = 0
    /\ view' = PcoinsTip
    /\ pc' = "scan"
    /\ UNCHANGED <<mempool, mapArgs, pindexPrev, vOrphan, mapDependers, vecPriority,
                   nBlockSize, nBlockTx, nBlockSigOps, fSortedByFee,
                   sproutValue, saplingValue, orchardValue, monitoring_pool_balances,
                   coinbase, minerAddress, exception, validity, nCtxFree, lastGate, headerVars, minerVars>>

\* the smallest id not visited: mempool.mapTx is iterated in index order
NextTx == CHOOSE id \in mi : \A o \in mi : id <= o

\* lines 430-509, one iteration of the loop over mempool.mapTx
ScanTx ==
    /\ pc = "scan"
    /\ mi # {}
    /\ LET id == NextTx
           tx == Tx(id)
           acc == ScanInputs(tx, 1, ScanStart, view, mempool)
           dPriority == ComputePriority(tx, acc.dPriority) + tx.dPriorityDelta
           nTotalIn == acc.nTotalIn + GetShieldedValueIn(tx) + tx.nFeeDelta
           feePaid == nTotalIn - GetValueOut(tx)
           feeRate == CFeeRate(feePaid, tx.nTxSize)
       IN  /\ mi' = mi \ {id}
           /\ IF IsExpiredTx(tx, nHeight)
              THEN UNCHANGED <<vOrphan, mapDependers, vecPriority>>
              ELSE IF acc.fOrphan
              THEN \E addr \in NewOrphanAddrs(vOrphan) :
                     /\ mapDependers' = Register(mapDependers, acc.registered, addr)
                     /\ vOrphan' = StoreOrphan(vOrphan, addr,
                            IF acc.fMissingInputs
                            THEN \* vOrphan.pop_back(): the record is destroyed
                                 [COrphan(id) EXCEPT !.setDependsOn = SeqToSet(acc.registered),
                                                     !.live = FALSE]
                            ELSE [COrphan(id) EXCEPT !.setDependsOn = SeqToSet(acc.registered),
                                                     !.dPriority = dPriority,
                                                     !.feeRate = feeRate,
                                                     !.feePaid = feePaid])
                     /\ UNCHANGED vecPriority
              ELSE /\ vecPriority' =
                        IF acc.fMissingInputs THEN vecPriority
                        ELSE vecPriority (+) SetToBag({TxPriority(dPriority, feeRate, feePaid, id)})
                   /\ UNCHANGED <<vOrphan, mapDependers>>
    /\ UNCHANGED <<pc, mempool, mapArgs, pindexPrev, chainparams, next_cb_mtx,
                   nBlockMaxSize, nBlockPrioritySize, nBlockMinSize, view,
                   nBlockSize, nBlockTx, nBlockSigOps, fSortedByFee,
                   sproutValue, saplingValue, orchardValue, monitoring_pool_balances,
                   vtx, vTxFees, vTxSigOps, nFees, coinbase, minerAddress, exception, validity, nCtxFree, lastGate, headerVars, minerVars>>

\* lines 512-547: the counters, the heap, the pool balances of the tip
BeginCollect ==
    /\ pc = "scan"
    /\ mi = {}
    /\ nBlockSize' = CoinbaseReserveSize
    /\ nBlockTx' = 0
    /\ nBlockSigOps' = CoinbaseReserveSigOps
    /\ fSortedByFee' = (nBlockPrioritySize <= 0)
    /\ sproutValue' = IF chainparams.fZIP209Enabled /\ pindexPrev.nChainSproutValue.has
                      THEN pindexPrev.nChainSproutValue.v ELSE 0
    /\ saplingValue' = IF chainparams.fZIP209Enabled /\ pindexPrev.nChainSaplingValue.has
                       THEN pindexPrev.nChainSaplingValue.v ELSE 0
    /\ orchardValue' = IF chainparams.fZIP209Enabled /\ pindexPrev.nChainOrchardValue.has
                       THEN pindexPrev.nChainOrchardValue.v ELSE 0
    /\ monitoring_pool_balances' =
         ~(chainparams.fZIP209Enabled
           /\ ~(pindexPrev.nChainSproutValue.has /\ pindexPrev.nChainSaplingValue.has
                /\ pindexPrev.nChainOrchardValue.has))
    /\ pc' = "collect"
    /\ UNCHANGED <<mempool, mapArgs, pindexPrev, chainparams, next_cb_mtx,
                   nBlockMaxSize, nBlockPrioritySize, nBlockMinSize, view, mi,
                   vOrphan, mapDependers, vecPriority,
                   vtx, vTxFees, vTxSigOps, nFees, coinbase, minerAddress, exception, validity, nCtxFree, lastGate, headerVars, minerVars>>


(***************************************************************************)
(* The selection loop, lines 550-698: one action per way an iteration ends. *)
(***************************************************************************)
\* lines 596-602: the comparator changes to by-fee on this transaction
SwitchesToFee(e) ==
    /\ ~fSortedByFee
    /\ \/ nBlockSize + Tx(e.ptx).nTxSize >= nBlockPrioritySize
       \/ ~AllowFree(e.dPriority)

\* the variant that lets the counter reach the ceiling
ExceedsSigOpsMutant(nSigOps) == nSigOps > MAX_BLOCK_SIGOPS

\* the variant that leaves the coinbase reserve out of the count
ExceedsSigOpsNoReserve(nSigOps) == nSigOps - CoinbaseReserveSigOps > MAX_BLOCK_SIGOPS

\* lines 571 and 612: the test against the sigop ceiling
ExceedsSigOps(nSigOps) == nSigOps >= MAX_BLOCK_SIGOPS

\* the variant that counts the administrator's fee delta as a fee
TxFeesWithDeltaMutant(v, tx) == GetValueIn(v, tx) - GetValueOut(tx) + tx.nFeeDelta

\* line 609: the fee the transaction pays
TxFees(v, tx) == GetValueIn(v, tx) - GetValueOut(tx)

\* the variant that adds the Orchard value balance instead of subtracting it
PoolsAfterMutant(tx) ==
    [sprout |-> sproutValue + SumJsOld(tx.vJoinSplit) - SumJsNew(tx.vJoinSplit),
     sapling |-> saplingValue - tx.valueBalanceSapling,
     orchard |-> orchardValue + tx.valueBalanceOrchard]

\* lines 632-663: the pool balances the transaction would leave
PoolsAfter(tx) ==
    [sprout |-> sproutValue + SumJsOld(tx.vJoinSplit) - SumJsNew(tx.vJoinSplit),
     sapling |-> saplingValue - tx.valueBalanceSapling,
     orchard |-> orchardValue - tx.valueBalanceOrchard]

TurnstileGate == chainparams.fZIP209Enabled /\ monitoring_pool_balances

\* the gates in the order the loop body tests them: the first that rejects
\* the popped tuple e, or "accept"
Gate(e) ==
    LET tx == Tx(e.ptx)
        nTxSize == tx.nTxSize
        nTxSigOps == tx.nLegacySigOps
        after == PoolsAfter(tx)
    IN  IF nBlockSize + nTxSize >= nBlockMaxSize THEN "size"
        ELSE IF ExceedsSigOps(nBlockSigOps + nTxSigOps) THEN "sigops"
        ELSE IF /\ fSortedByFee
                /\ tx.dPriorityDelta <= 0
                /\ tx.nFeeDelta <= 0
                /\ e.feeRate < minRelayTxFee
                /\ e.feePaid < DEFAULT_FEE
                /\ nBlockSize + nTxSize >= nBlockMinSize THEN "free"
        ELSE IF ~HaveInputs(view, tx) THEN "inputs"
        ELSE IF ExceedsSigOps(nBlockSigOps + nTxSigOps + tx.nP2SHSigOps) THEN "p2sh"
        ELSE IF ~tx.fContextualOk THEN "contextual"
        ELSE IF TurnstileGate /\ after.sprout < 0 THEN "sprout"
        ELSE IF TurnstileGate /\ after.sapling < 0 THEN "sapling"
        ELSE IF TurnstileGate /\ after.orchard < 0 THEN "orchard"
        ELSE "accept"

\* the variant that leaves the tuple in the queue
PopHeapKeeps(e) == vecPriority

\* std::pop_heap and pop_back
PopHeap(e) == vecPriority (-) SetToBag({e})

\* `continue' before line 596: only the queue changed
SkipEarly(gate) ==
    /\ pc = "collect"
    /\ \E e \in Front(vecPriority, fSortedByFee) :
         /\ Gate(e) = gate
         /\ vecPriority' = PopHeap(e)
         /\ lastGate' = [gate |-> gate, tx |-> e.ptx]
    /\ UNCHANGED <<pc, mempool, mapArgs, pindexPrev, chainparams, next_cb_mtx,
                   nBlockMaxSize, nBlockPrioritySize, nBlockMinSize, view, mi,
                   vOrphan, mapDependers,
                   nBlockSize, nBlockTx, nBlockSigOps, fSortedByFee,
                   sproutValue, saplingValue, orchardValue, monitoring_pool_balances,
                   vtx, vTxFees, vTxSigOps, nFees, coinbase, minerAddress, exception, validity, nCtxFree, headerVars, minerVars>>

\* `continue' after line 602: the queue changed and the comparator may have
SkipLate(gate) ==
    /\ pc = "collect"
    /\ \E e \in Front(vecPriority, fSortedByFee) :
         /\ Gate(e) = gate
         /\ vecPriority' = PopHeap(e)
         /\ fSortedByFee' = (fSortedByFee \/ SwitchesToFee(e))
         /\ lastGate' = [gate |-> gate, tx |-> e.ptx]
    /\ UNCHANGED <<pc, mempool, mapArgs, pindexPrev, chainparams, next_cb_mtx,
                   nBlockMaxSize, nBlockPrioritySize, nBlockMinSize, view, mi,
                   vOrphan, mapDependers,
                   nBlockSize, nBlockTx, nBlockSigOps,
                   sproutValue, saplingValue, orchardValue, monitoring_pool_balances,
                   vtx, vTxFees, vTxSigOps, nFees, coinbase, minerAddress, exception, validity, nCtxFree, headerVars, minerVars>>

SkipSize == SkipEarly("size")
SkipLegacySigOps == SkipEarly("sigops")
SkipFree == SkipEarly("free")
SkipMissingInputs == SkipLate("inputs")
SkipP2SHSigOps == SkipLate("p2sh")
SkipContextual == SkipLate("contextual")
SkipSproutTurnstile == SkipLate("sprout")
SkipSaplingTurnstile == SkipLate("sapling")
SkipOrchardTurnstile == SkipLate("orchard")

\* the variant that queues an orphan as soon as one parent is accepted
ReadyToQueueAlways(deps) == TRUE

\* line 689: porphan->setDependsOn.empty() after the erase
ReadyToQueue(deps) == deps = {}

\* lines 682-697: the orphans waiting for hash, in the order registered
RECURSIVE Promote(_, _, _, _)
Promote(refs, hash, orphans, queue) ==
    IF refs = <<>> THEN [vOrphan |-> orphans, vecPriority |-> queue]
    ELSE LET a == Head(refs)
             porphan == orphans[a]
             deps == porphan.setDependsOn \ {hash}
         IN  IF porphan.setDependsOn # {}
             THEN Promote(Tail(refs), hash,
                          [orphans EXCEPT ![a].setDependsOn = deps],
                          IF ReadyToQueue(deps)
                          THEN queue (+) SetToBag({TxPriority(porphan.dPriority,
                                   porphan.feeRate, porphan.feePaid, porphan.ptx)})
                          ELSE queue)
             ELSE Promote(Tail(refs), hash, orphans, queue)

\* a pointer registered under hash refers to a record that was destroyed and
\* whose memory no later record took
DanglingUnder(hash) == \E i \in 1..Len(mapDependers[hash]) : ~vOrphan[mapDependers[hash][i]].live

\* lines 604-697 for a transaction that passes every gate.  Reading a
\* destroyed orphan record is undefined: here the record reads as it was
\* left, AcceptTxFault is the other outcome
AcceptTx ==
    /\ pc = "collect"
    /\ \E e \in Front(vecPriority, fSortedByFee) :
         LET tx == Tx(e.ptx)
             nTxFees == TxFees(view, tx)
             nTxSigOps == tx.nLegacySigOps + tx.nP2SHSigOps
             after == PoolsAfter(tx)
             promoted == Promote(mapDependers[e.ptx], e.ptx, vOrphan, PopHeap(e))
         IN  /\ Gate(e) = "accept"
             /\ fSortedByFee' = (fSortedByFee \/ SwitchesToFee(e))
             /\ sproutValue' = IF TurnstileGate THEN after.sprout ELSE sproutValue
             /\ saplingValue' = IF TurnstileGate THEN after.sapling ELSE saplingValue
             /\ orchardValue' = IF TurnstileGate THEN after.orchard ELSE orchardValue
             /\ view' = UpdateCoins(e.ptx, view)
             /\ vtx' = Append(vtx, MempoolTx(e.ptx))
             /\ vTxFees' = Append(vTxFees, nTxFees)
             /\ vTxSigOps' = Append(vTxSigOps, nTxSigOps)
             /\ nBlockSize' = nBlockSize + tx.nTxSize
             /\ nBlockTx' = nBlockTx + 1
             /\ nBlockSigOps' = nBlockSigOps + nTxSigOps
             /\ nFees' = nFees + nTxFees
             /\ vOrphan' = promoted.vOrphan
             /\ vecPriority' = promoted.vecPriority
             /\ lastGate' = [gate |-> "accept", tx |-> e.ptx]
    /\ UNCHANGED <<pc, mempool, mapArgs, pindexPrev, chainparams, next_cb_mtx,
                   nBlockMaxSize, nBlockPrioritySize, nBlockMinSize, mi,
                   mapDependers, monitoring_pool_balances, coinbase, minerAddress, exception, validity, nCtxFree, headerVars, minerVars>>

\* the other outcome of reading a destroyed orphan record: the process dies
AcceptTxFault ==
    /\ pc = "collect"
    /\ \E e \in Front(vecPriority, fSortedByFee) :
         /\ Gate(e) = "accept"
         /\ DanglingUnder(e.ptx)
         /\ lastGate' = [gate |-> "fault", tx |-> e.ptx]
    /\ pc' = "crashed"
    /\ UNCHANGED <<mempool, mapArgs, pindexPrev, chainparams, next_cb_mtx,
                   nBlockMaxSize, nBlockPrioritySize, nBlockMinSize, view, mi,
                   vOrphan, mapDependers, vecPriority,
                   nBlockSize, nBlockTx, nBlockSigOps, fSortedByFee,
                   sproutValue, saplingValue, orchardValue, monitoring_pool_balances,
                   vtx, vTxFees, vTxSigOps, nFees, coinbase, minerAddress, exception, validity, nCtxFree, headerVars, minerVars>>


(***************************************************************************)
(* The coinbase builder, lines 125-368.                                     *)
(*                                                                         *)
(* A step that calls into the proving library may fail; `fail' names the   *)
(* step that does, "none" when every step succeeds.  A result records the  *)
(* transaction, the exception that left the builder ("none" when it        *)
(* returned) and how often the Sapling proving context was freed.          *)
(***************************************************************************)
FailPoints ==
    {"none", "funding", "minerOutput", "orchardBuild", "sighash", "sighashOther",
     "proveAndSign", "bindingSig"}

\* a coinbase scriptSig: empty, CScript() << nHeight << OP_0, or
\* (CScript() << nHeight << CScriptNum(nExtraNonce)) + COINBASE_FLAGS
ScriptSig(form, h, n) == [form |-> form, nHeight |-> h, nExtraNonce |-> n]

TxOut(nValue, scriptPubKey) == [nValue |-> nValue, scriptPubKey |-> scriptPubKey]
NullTxOut == TxOut(-1, "null")
\* a Sapling output description, with the outgoing viewing key it was built with
OutputDescription(value, to, ovk) == [value |-> value, to |-> to, ovk |-> ovk]
NoOrchardBundle == [present |-> FALSE, valueBalance |-> 0, outputs |-> <<>>]

Res(mtx, exc, nFree) == [mtx |-> mtx, exception |-> exc, nCtxFree |-> nFree]
MinerRes(mtx, exc, nFree, value) ==
    [mtx |-> mtx, exception |-> exc, nCtxFree |-> nFree, value |-> value]

\* AddFundingStreamValueToTx, lines 139-157, for one element
AddFundingStreamValueToTx(mtx, fselem, fail) ==
    IF fselem.recipient = "sapling"
    THEN IF fail = "funding" THEN [added |-> FALSE, mtx |-> mtx]
         ELSE [added |-> TRUE,
               mtx |-> [mtx EXCEPT
                  !.vShieldedOutput = Append(@, OutputDescription(fselem.value, "fundingSapling", 0)),
                  !.valueBalanceSapling = @ - fselem.value]]
    ELSE [added |-> TRUE,
          mtx |-> [mtx EXCEPT !.vout = Append(@, TxOut(fselem.value, "fundingScript"))]]

\* the loop of lines 195-202 from element i on
RECURSIVE AddFundingStreams(_, _, _, _, _)
AddFundingStreams(mtx, elems, i, miner_reward, fail) ==
    IF i > Len(elems) THEN MinerRes(mtx, "none", 0, miner_reward)
    ELSE LET r == AddFundingStreamValueToTx(mtx, elems[i], fail)
         IN  IF ~r.added THEN MinerRes(r.mtx, "runtime_error_ptr", 1, 0)
             ELSE AddFundingStreams(r.mtx, elems, i + 1, miner_reward - elems[i].value, fail)

\* the founders' reward variant that takes the reward from the miner but
\* pays out one unit less
FoundersRewardShortMutant(mtx, cp, h, fees, fail) ==
    LET block_subsidy == cp.nBlockSubsidy
        vFoundersReward == block_subsidy \div 5
    IN  IF h > 0 /\ ~cp.fCanopy /\ h <= cp.nLastFoundersRewardBlockHeight
        THEN MinerRes([mtx EXCEPT !.vout = Append(@, TxOut(vFoundersReward - 1, "foundersScript"))],
                      "none", 0, block_subsidy - vFoundersReward + fees)
        ELSE IF h > 0 /\ cp.fCanopy
        THEN LET r == AddFundingStreams(mtx, cp.fundingStreams, 1, block_subsidy, fail)
             IN  IF r.exception # "none" THEN r ELSE [r EXCEPT !.value = @ + fees]
        ELSE MinerRes(mtx, "none", 0, block_subsidy + fees)

\* the variant that tests the founders' reward height before Canopy
FoundersFirstMutant(mtx, cp, h, fees, fail) ==
    LET block_subsidy == cp.nBlockSubsidy
        vFoundersReward == block_subsidy \div 5
    IN  IF h > 0 /\ h <= cp.nLastFoundersRewardBlockHeight
        THEN MinerRes([mtx EXCEPT !.vout = Append(@, TxOut(vFoundersReward, "foundersScript"))],
                      "none", 0, block_subsidy - vFoundersReward + fees)
        ELSE IF h > 0 /\ cp.fCanopy
        THEN LET r == AddFundingStreams(mtx, cp.fundingStreams, 1, block_subsidy, fail)
             IN  IF r.exception # "none" THEN r ELSE [r EXCEPT !.value = @ + fees]
        ELSE MinerRes(mtx, "none", 0, block_subsidy + fees)

\* SetFoundersRewardAndGetMinerValue, lines 184-217
SetFoundersRewardAndGetMinerValue(mtx, cp, h, fees, fail) ==
    LET block_subsidy == cp.nBlockSubsidy
        vFoundersReward == block_subsidy \div 5
    IN  IF h > 0 /\ cp.fCanopy
        THEN LET r == AddFundingStreams(mtx, cp.fundingStreams, 1, block_subsidy, fail)
             IN  IF r.exception # "none" THEN r ELSE [r EXCEPT !.value = @ + fees]
        ELSE IF h > 0 /\ h <= cp.nLastFoundersRewardBlockHeight
        THEN MinerRes([mtx EXCEPT !.vout = Append(@, TxOut(vFoundersReward, "foundersScript"))],
                      "none", 0, block_subsidy - vFoundersReward + fees)
        ELSE MinerRes(mtx, "none", 0, block_subsidy + fees)

\* ComputeBindingSig, lines 219-259; orchardBundle is the unauthorized
\* bundle, or NoOrchardBundle
ComputeBindingSig(mtx, orchardBundle, fail) ==
    IF fail = "sighash" THEN Res(mtx, "logic_error", 1)
    \* an exception of another type passes the handler of line 234
    ELSE IF fail = "sighashOther" THEN Res(mtx, "exception", 0)
    ELSE IF orchardBundle.present /\ fail = "proveAndSign" THEN Res(mtx, "runtime_error_ptr", 1)
    ELSE LET signed == IF orchardBundle.present
                       THEN [mtx EXCEPT !.orchardBundle = orchardBundle]
                       ELSE mtx
         IN  IF fail = "bindingSig" THEN Res(signed, "runtime_error_ptr", 1)
             ELSE Res([signed EXCEPT !.fBindingSig = TRUE], "none", 0)

\* operator()(OrchardRawAddress), lines 262-298
AddOrchardOutputs(mtx, cp, h, fees, fail) ==
    LET m == SetFoundersRewardAndGetMinerValue(mtx, cp, h, fees, fail)
        bundle == [present |-> TRUE, valueBalance |-> -m.value,
                   outputs |-> <<OutputDescription(m.value, "miner", 0),
                                 OutputDescription(0, "dummy", 0)>>]
    IN  IF m.exception # "none" THEN Res(m.mtx, m.exception, m.nCtxFree)
        ELSE IF fail = "orchardBuild" THEN Res(m.mtx, "runtime_error_ptr", 1)
        ELSE LET r == ComputeBindingSig(m.mtx, bundle, fail)
             IN  IF r.exception # "none" THEN r ELSE Res(r.mtx, "none", 1)

\* operator()(SaplingPaymentAddress), lines 301-322
AddSaplingOutputs(mtx, cp, h, fees, fail) ==
    LET m == SetFoundersRewardAndGetMinerValue(mtx, cp, h, fees, fail)
        paid == [m.mtx EXCEPT !.valueBalanceSapling = @ - m.value]
    IN  IF m.exception # "none" THEN Res(m.mtx, m.exception, m.nCtxFree)
        ELSE IF fail = "minerOutput" THEN Res(paid, "runtime_error_ptr", 1)
        ELSE LET r == ComputeBindingSig(
                        [paid EXCEPT !.vShieldedOutput =
                                        Append(@, OutputDescription(m.value, "miner", 0))],
                        NoOrchardBundle, fail)
             IN  IF r.exception # "none" THEN r ELSE Res(r.mtx, "none", 1)

\* operator()(CReserveScript), lines 325-342
AddTransparentOutputs(mtx, cp, h, fees, fail) ==
    LET m == SetFoundersRewardAndGetMinerValue([mtx EXCEPT !.vout = <<NullTxOut>>],
                                               cp, h, fees, fail)
        filled == [m.mtx EXCEPT !.vout[1] = TxOut(m.value, "reserveScript")]
    IN  IF m.exception # "none" THEN Res(m.mtx, m.exception, m.nCtxFree)
        ELSE IF Len(filled.vShieldedOutput) > 0
        THEN LET r == ComputeBindingSig(filled, NoOrchardBundle, fail)
             IN  IF r.exception # "none" THEN r ELSE Res(r.mtx, "none", 1)
        ELSE Res(filled, "none", 1)

\* CreateCoinbaseTransaction, lines 345-368
\* the variant that sets the expiry height before NU5 as well
CoinbaseExpiryHeightAlways(cp, h) == h

\* lines 352-359: ZIP 203
CoinbaseExpiryHeight(cp, h) == IF cp.fNU5 THEN h ELSE 0

CreateCoinbaseTransaction(cp, fees, addr, h, fail) ==
    LET mtx == [vin |-> <<[prevout |-> "null", scriptSig |-> ScriptSig("empty", 0, UInt32(0, 0))]>>,
                vout |-> <<>>,
                vShieldedOutput |-> <<>>,
                valueBalanceSapling |-> 0,
                orchardBundle |-> NoOrchardBundle,
                fBindingSig |-> FALSE,
                nExpiryHeight |-> CoinbaseExpiryHeight(cp, h)]
        r == CASE addr = "orchard" -> AddOrchardOutputs(mtx, cp, h, fees, fail)
               [] addr = "sapling" -> AddSaplingOutputs(mtx, cp, h, fees, fail)
               [] OTHER -> AddTransparentOutputs(mtx, cp, h, fees, fail)
    IN  IF r.exception # "none" THEN r
        ELSE [r EXCEPT !.mtx.vin[1].scriptSig = ScriptSig("height_op0", h, UInt32(0, 0))]


(***************************************************************************)
(* The end of CreateNewBlock, lines 700-776.                                *)
(***************************************************************************)
\* GetLegacySigOpCount of a coinbase: the miner's script ends in
\* OP_CHECKSIG (line 798), the founders' and funding scripts hold none
GetLegacySigOpCount(mtx) ==
    Cardinality({i \in 1..Len(mtx.vout) : mtx.vout[i].scriptPubKey = "reserveScript"})

\* the coinbase a caller precomputed: built for no fees
SuppliedCoinbase(cp, addr) == CreateCoinbaseTransaction(cp, 0, addr, nHeight, "none")

\* tx.vShieldedOutput of a mempool transaction, as the number of its
\* Sapling outputs: J has two
NShieldedOutput(id) == IF id = 10 THEN 2 ELSE 0

\* the note commitments (odesc.cmu) of the transaction at position i of the
\* block, in output order; a commitment is named by its transaction (0 is
\* the coinbase) and its index
TxCmus(txs, cb, i) ==
    IF txs[i].kind = "coinbase"
    THEN [k \in 1..Len(cb.vShieldedOutput) |-> <<0, k>>]
    ELSE [k \in 1..NShieldedOutput(txs[i].id) |-> <<txs[i].id, k>>]

\* lines 713-717: sapling_tree after the loop over pblock->vtx from
\* position i on, a tree being the sequence of its leaves
RECURSIVE AppendCmus(_, _, _, _)
AppendCmus(tree, txs, cb, i) ==
    IF i > Len(txs) THEN tree
    ELSE AppendCmus(tree \o TxCmus(txs, cb, i), txs, cb, i + 1)

\* line 416: the Sapling tree of the best anchor
SaplingTreeAtTip == << <<-1, 0>> >>

\* view.GetHistoryRoot(prevConsensusBranchId)
GetHistoryRoot(epochId) == <<"history", epochId>>
\* pblock->BuildAuthDataMerkleTree(): the root over the authorizing data of
\* the block's transactions
BuildAuthDataMerkleTree(txs, cb) == <<"auth", cb, Tail(txs)>>
\* pblock->BuildMerkleTree(): the root over the block's transactions
BuildMerkleTree(txs, cb) == <<"merkle", cb, Tail(txs)>>
DeriveBlockCommitmentsHash(historyRoot, authDataRoot) ==
    <<"commitments", historyRoot, authDataRoot>>
\* sapling_tree.root()
SaplingRoot(tree) == <<"saplingroot", tree>>

Header(historyRoot, authDataRoot, commitments) ==
    [hashChainHistoryRoot |-> historyRoot, hashAuthDataRoot |-> authDataRoot,
     hashBlockCommitments |-> commitments]

\* the variant that tests the Heartwood activation height before NU5
HeaderCommitmentsHeartwoodFirst(cp, txs, cb) ==
    IF cp.heartwood = "activation"
    THEN Header(NullHash, NullHash, NullHash)
    ELSE IF cp.fNU5
    THEN Header(GetHistoryRoot(cp.prevBranchId), BuildAuthDataMerkleTree(txs, cb),
                DeriveBlockCommitmentsHash(GetHistoryRoot(cp.prevBranchId),
                                           BuildAuthDataMerkleTree(txs, cb)))
    ELSE IF cp.heartwood = "active"
    THEN Header(GetHistoryRoot(cp.prevBranchId), NullHash, GetHistoryRoot(cp.prevBranchId))
    ELSE Header(NullHash, NullHash, SaplingRoot(AppendCmus(SaplingTreeAtTip, txs, cb, 1)))

\* lines 731-765: the cached roots and the header commitment
HeaderCommitments(cp, txs, cb) ==
    IF cp.fNU5
    THEN Header(GetHistoryRoot(cp.prevBranchId), BuildAuthDataMerkleTree(txs, cb),
                DeriveBlockCommitmentsHash(GetHistoryRoot(cp.prevBranchId),
                                           BuildAuthDataMerkleTree(txs, cb)))
    ELSE IF cp.heartwood = "activation"
    THEN Header(NullHash, NullHash, NullHash)
    ELSE IF cp.heartwood = "active"
    THEN Header(GetHistoryRoot(cp.prevBranchId), NullHash, GetHistoryRoot(cp.prevBranchId))
    ELSE Header(NullHash, NullHash, SaplingRoot(AppendCmus(SaplingTreeAtTip, txs, cb, 1)))

\* the variant that returns the template whatever TestBlockValidity says
ValidityIgnoredMutant(fValid) == "returned"

\* lines 771-776: the runtime error, or the return
AfterValidity(fValid) == IF fValid THEN "returned" ELSE "threw"

\* the steps of the coinbase builder that fail within an assembly: one that
\* throws a pointer, one that throws std::logic_error
AssemblerFailPoints == {"none", "minerOutput", "sighash"}

\* lines 731-765: the three header fields are assigned
SetHeader(hdr) ==
    /\ hashChainHistoryRoot' = hdr.hashChainHistoryRoot
    /\ hashAuthDataRoot' = hdr.hashAuthDataRoot
    /\ hashBlockCommitments' = hdr.hashBlockCommitments
    /\ hashMerkleRoot' = NullHash

\* the coinbase, the fee and sigop entries of index 0, the header and the
\* validity check; fValid is the verdict of TestBlockValidity
Finish ==
    /\ pc = "collect"
    /\ BagToSet(vecPriority) = {}
    /\ \E addr \in MinerAddresses, fail \in (IF next_cb_mtx THEN {"none"} ELSE AssemblerFailPoints) :
         \E r \in {IF next_cb_mtx THEN SuppliedCoinbase(chainparams, addr)
                    ELSE CreateCoinbaseTransaction(chainparams, nFees, addr, nHeight, fail)} :
             /\ minerAddress' = addr
             /\ nCtxFree' = IF next_cb_mtx THEN nCtxFree ELSE r.nCtxFree
             /\ IF r.exception # "none"
                THEN /\ pc' = "threw"
                     /\ exception' = r.exception
                     /\ UNCHANGED <<vtx, vTxFees, vTxSigOps, coinbase, validity, headerVars>>
                ELSE /\ vtx' = [vtx EXCEPT ![1] = CoinbaseTx]
                     /\ coinbase' = r.mtx
                     /\ \E hdr \in {HeaderCommitments(chainparams,
                                          [vtx EXCEPT ![1] = CoinbaseTx], r.mtx)} :
                          SetHeader(hdr)
                     /\ vTxFees' = [vTxFees EXCEPT ![1] = -nFees]
                     /\ vTxSigOps' = [vTxSigOps EXCEPT ![1] = GetLegacySigOpCount(r.mtx)]
                     /\ \E fValid \in BOOLEAN :
                          /\ validity' = IF fValid THEN "accepted" ELSE "rejected"
                          /\ pc' = AfterValidity(fValid)
                          /\ exception' = IF fValid THEN "none" ELSE "runtime_error"
    /\ UNCHANGED <<mempool, mapArgs, pindexPrev, chainparams, next_cb_mtx,
                   nBlockMaxSize, nBlockPrioritySize, nBlockMinSize, view, mi,
                   vOrphan, mapDependers, vecPriority,
                   nBlockSize, nBlockTx, nBlockSigOps, fSortedByFee,
                   sproutValue, saplingValue, orchardValue, monitoring_pool_balances,
                   nFees, lastGate, minerVars>>

Next ==
    \/ Begin
    \/ ScanTx
    \/ BeginCollect
    \/ SkipSize
    \/ SkipLegacySigOps
    \/ SkipFree
    \/ SkipMissingInputs
    \/ SkipP2SHSigOps
    \/ SkipContextual
    \/ SkipSproutTurnstile
    \/ SkipSaplingTurnstile
    \/ SkipOrchardTurnstile
    \/ AcceptTx
    \/ AcceptTxFault
    \/ Finish

Spec == Init /\ [][Next]_vars

(***************************************************************************)
(* The template as an observer reads it.                                    *)
(***************************************************************************)
\* the positions of vtx that hold mempool transactions
TemplatePositions == {i \in 1..Len(vtx) : vtx[i].kind = "mempool"}

\* the transaction at position i of the template
TemplateTx(i) == Tx(vtx[i].id)

\* the outpoints position i spends, and the ones it creates
SpentAt(i) == {TemplateTx(i).vin[k] : k \in 1..Len(TemplateTx(i).vin)}
CreatedAt(i) == {<<vtx[i].id, n>> : n \in 1..Len(TemplateTx(i).vout)}

\* the snapshot of the chain's coins with the template transactions before
\* position i applied to it
AvailableBefore(i) ==
    (PcoinsTip \cup UNION {CreatedAt(j) : j \in {p \in TemplatePositions : p < i}})
    \ UNION {SpentAt(j) : j \in {p \in TemplatePositions : p < i}}

Assembling == pc \in {"collect", "returned", "threw", "crashed"}

(***************************************************************************)
(* C1: in every template, a transaction B that spends an output of a       *)
(* transaction A which the coin view snapshot opened at the start of        *)
(* assembly does not hold has A in the template at a strictly smaller       *)
(* index.                                                                   *)
(***************************************************************************)
C1_DependencyOrder ==
    \A i \in TemplatePositions :
        \A op \in SpentAt(i) :
            op \notin PcoinsTip =>
                \E j \in TemplatePositions : j < i /\ vtx[j].id = op[1]

\* a returned template holds C, whose parents A and B are mempool transactions
C1_Witness ==
    /\ pc = "returned"
    /\ \E i, j, k \in TemplatePositions :
         /\ vtx[i].id = 1 /\ vtx[j].id = 2 /\ vtx[k].id = 3
         /\ i < j /\ j < k

(***************************************************************************)
(* C2: when a transaction is appended to the template, each of its          *)
(* transparent inputs is unspent in the coin view as the template           *)
(* transactions before it left it; no outpoint is spent by two              *)
(* transactions of one template.                                            *)
(***************************************************************************)
C2_InputsUnspent ==
    /\ \A i \in TemplatePositions : SpentAt(i) \subseteq AvailableBefore(i)
    /\ \A i, j \in TemplatePositions : i # j => SpentAt(i) \cap SpentAt(j) = {}
    /\ Assembling => view = AvailableBefore(Len(vtx) + 1)

\* D was skipped at the input check because A, in the template, spent its coin
C2_Witness ==
    /\ lastGate = [gate |-> "inputs", tx |-> 4]
    /\ \E i \in TemplatePositions : vtx[i].id = 1

(***************************************************************************)
(* C3: with ZIP 209 enabled and the three pool totals present on the tip,  *)
(* the Sprout, Sapling and Orchard balances are >= 0 after every accepted  *)
(* transaction; a transaction that would drive a pool negative is skipped  *)
(* and the balances stay as they were.                                      *)
(***************************************************************************)
\* the tip carries the three totals and ZIP 209 is enabled
TurnstileOn ==
    /\ chainparams.fZIP209Enabled
    /\ pindexPrev.nChainSproutValue.has
    /\ pindexPrev.nChainSaplingValue.has
    /\ pindexPrev.nChainOrchardValue.has

\* the balances the template leaves, from the tip's totals and the
\* transactions of the template
TemplatePools ==
    LET pos == TemplatePositions
        Sum(f(_)) == SumSeq([i \in 1..Len(vtx) |-> IF i \in pos THEN f(i) ELSE 0])
        dSprout(i) == SumJsOld(TemplateTx(i).vJoinSplit) - SumJsNew(TemplateTx(i).vJoinSplit)
        dSapling(i) == -TemplateTx(i).valueBalanceSapling
        dOrchard(i) == -TemplateTx(i).valueBalanceOrchard
    IN  [sprout |-> pindexPrev.nChainSproutValue.v + Sum(dSprout),
         sapling |-> pindexPrev.nChainSaplingValue.v + Sum(dSapling),
         orchard |-> pindexPrev.nChainOrchardValue.v + Sum(dOrchard)]

C3_Turnstile ==
    (TurnstileOn /\ Assembling) =>
        /\ TemplatePools.sprout >= 0
        /\ TemplatePools.sapling >= 0
        /\ TemplatePools.orchard >= 0
        /\ sproutValue = TemplatePools.sprout
        /\ saplingValue = TemplatePools.sapling
        /\ orchardValue = TemplatePools.orchard
        /\ lastGate.gate = "sprout" =>
             /\ sproutValue + SumJsOld(Tx(lastGate.tx).vJoinSplit)
                  - SumJsNew(Tx(lastGate.tx).vJoinSplit) < 0
             /\ lastGate.tx \notin {vtx[i].id : i \in TemplatePositions}
        /\ lastGate.gate = "sapling" =>
             /\ saplingValue - Tx(lastGate.tx).valueBalanceSapling < 0
             /\ lastGate.tx \notin {vtx[i].id : i \in TemplatePositions}
        /\ lastGate.gate = "orchard" =>
             /\ orchardValue - Tx(lastGate.tx).valueBalanceOrchard < 0
             /\ lastGate.tx \notin {vtx[i].id : i \in TemplatePositions}

\* J, with valueBalanceSapling = +1, was skipped at a Sapling balance of 0
\* after another transaction had been accepted
C3_Witness ==
    /\ TurnstileOn
    /\ lastGate = [gate |-> "sapling", tx |-> 10]
    /\ saplingValue = 0
    /\ TemplatePositions # {}

(***************************************************************************)
(* C5: the legacy plus P2SH signature operations of all the transactions   *)
(* of a template total at most MAX_BLOCK_SIGOPS; the running counter,      *)
(* started at 100 for the coinbase, is below MAX_BLOCK_SIGOPS after every  *)
(* accepted transaction.                                                    *)
(***************************************************************************)
\* the signature operations of the mempool transactions of the template
TemplateSigOps ==
    SumSeq([i \in 1..Len(vtx) |->
              IF i \in TemplatePositions
              THEN TemplateTx(i).nLegacySigOps + TemplateTx(i).nP2SHSigOps
              ELSE 0])

C5_SigOps ==
    /\ Assembling =>
         /\ nBlockSigOps = CoinbaseReserveSigOps + TemplateSigOps
         /\ nBlockSigOps < MAX_BLOCK_SIGOPS
    /\ pc = "returned" =>
         /\ SumSeq(vTxSigOps) = vTxSigOps[1] + TemplateSigOps
         /\ SumSeq(vTxSigOps) <= MAX_BLOCK_SIGOPS

\* G, with 19890 legacy sigops, is in a returned template and F, whose 10
\* sigops would bring the counter to the ceiling, is not
C5_Witness ==
    /\ pc = "returned"
    /\ nBlockSigOps >= MAX_BLOCK_SIGOPS - 10
    /\ 6 \in mempool
    /\ \E i \in TemplatePositions : vtx[i].id = 7

(***************************************************************************)
(* C8: in a returned template vtx, vTxFees and vTxSigOps have one length,  *)
(* vtx[0] is the coinbase, and vTxFees[0] is minus the sum of the other    *)
(* entries, each the input value minus the output value of its             *)
(* transaction, the administrator's fee delta not counted.                  *)
(***************************************************************************)
\* what transaction id pays: the value of the outputs it spends, plus what
\* it takes out of the shielded pools, minus what it puts out
ActualFee(id) ==
    SumSeq([k \in 1..Len(Tx(id).vin) |-> OutValue(Tx(id).vin[k])])
    + GetShieldedValueIn(Tx(id)) - GetValueOut(Tx(id))

C8_ParallelArrays ==
    pc = "returned" =>
        /\ Len(vtx) = Len(vTxFees)
        /\ Len(vtx) = Len(vTxSigOps)
        /\ vtx[1] = CoinbaseTx
        /\ \A i \in 2..Len(vtx) : vtx[i].kind = "mempool" /\ vTxFees[i] = ActualFee(vtx[i].id)
        /\ vTxFees[1] = -SumSeq(SubSeq(vTxFees, 2, Len(vTxFees)))
        /\ vTxFees[1] = -nFees

\* a returned template with M, whose fee delta is 7, and a fee-paying
\* transaction
C8_Witness ==
    /\ pc = "returned"
    /\ Len(vtx) >= 3
    /\ vTxFees[1] < 0
    /\ \E i \in TemplatePositions : vtx[i].id = 13

(***************************************************************************)
(* C9: CreateNewBlock returns a template only if TestBlockValidity          *)
(* accepted the assembled block; if it rejects, no template is returned    *)
(* and a runtime error is raised to the caller.                             *)
(***************************************************************************)
C9_ValidityGate ==
    /\ pc = "returned" => validity = "accepted"
    /\ validity = "rejected" => pc = "threw" /\ exception = "runtime_error"

\* an assembled block with mempool transactions was rejected
C9_Witness ==
    /\ validity = "rejected"
    /\ pc = "threw"
    /\ TemplatePositions # {}

(***************************************************************************)
(* The serialized size of a template, by the Zcash block wire format the   *)
(* template is to be compatible with.  The parts of a coinbase whose size  *)
(* varies with its scripts are counted at their smallest, so the size      *)
(* computed is a lower bound of the serialized size.                        *)
(***************************************************************************)
\* the header: 140 bytes of fields and the length byte of the empty solution
BlockHeaderSize == 141
\* the compact-size transaction count of a block of fewer than 253
TxCountSize == 1
\* a coinbase without outputs: version fields, one input with a scriptSig
\* of height and OP_0, lock time, expiry height, value balance, the counts
CoinbaseBaseSize == 74
\* a transparent output: the amount, the script length, a P2SH script
TxOutSize == 32
\* a Sapling output description: cv, cmu, ephemeral key, the two
\* ciphertexts and the proof
OutputDescriptionSize == 948
\* the Sapling binding signature
BindingSigSize == 64
\* an Orchard action without its share of the proof
OrchardActionSize == 820

GetSerializeSizeCoinbase(mtx) ==
    CoinbaseBaseSize
    + TxOutSize * Len(mtx.vout)
    + OutputDescriptionSize * Len(mtx.vShieldedOutput)
    + (IF mtx.fBindingSig THEN BindingSigSize ELSE 0)
    + (IF mtx.orchardBundle.present
       THEN OrchardActionSize * Len(mtx.orchardBundle.outputs) ELSE 0)

\* ::GetSerializeSize(*pblock, ...) of a template whose coinbase is in place
GetSerializeSizeBlock ==
    BlockHeaderSize + TxCountSize + GetSerializeSizeCoinbase(coinbase)
    + SumSeq([i \in 1..Len(vtx) |-> IF i \in TemplatePositions THEN TemplateTx(i).nTxSize ELSE 0])

(***************************************************************************)
(* C4: the serialized size of every template, coinbase included, is at     *)
(* most max_size, the clamped blockmaxsize, the coinbase being accounted   *)
(* for by a reserve of 1000 bytes whatever the miner address.               *)
(***************************************************************************)
C4_TemplateSize ==
    pc = "returned" => GetSerializeSizeBlock <= nBlockMaxSize

(***************************************************************************)
(* CreateCoinbaseTransaction on its own: the chain parameters, the fee     *)
(* total and the miner address of a call are drawn at the start.           *)
(***************************************************************************)
\* GetActiveFundingStreamElements(nHeight, blockSubsidy): each stream
\* receives its percentage of the subsidy
FundingStreamSets(subsidy) ==
    { <<>>,
      << FS("sapling", (subsidy * 5) \div 100) >>,
      << FS("script", (subsidy * 7) \div 100), FS("sapling", (subsidy * 5) \div 100),
         FS("script", (subsidy * 8) \div 100) >> }

\* the subsidies of the stand-alone constructions
BlockSubsidies == {0, 100, 625000, 1250003}

\* funding streams exist only with Canopy
CoinbaseParamsSet ==
    UNION { { MkParams(canopy, lastFR, TRUE, nu5, subsidy, IF canopy THEN streams ELSE <<>>,
                       "active", "heartwood") :
                canopy \in BOOLEAN, nu5 \in BOOLEAN,
                lastFR \in {TipHeight - 100, TipHeight + 1, TipHeight + 100},
                streams \in FundingStreamSets(subsidy) } :
            subsidy \in BlockSubsidies }

InitCoinbase ==
    /\ pc = "coinbase"
    /\ chainparams \in CoinbaseParamsSet
    /\ nFees \in 0..MaxFees
    /\ minerAddress \in MinerAddresses
    /\ mempool = {}
    /\ mapArgs = MkArgs(DEFAULT_BLOCK_MAX_SIZE, DEFAULT_BLOCK_PRIORITY_SIZE, DEFAULT_BLOCK_MIN_SIZE)
    /\ pindexPrev = MkTip(Some(0), Some(0), Some(0))
    /\ next_cb_mtx = FALSE
    /\ nBlockMaxSize = 0 /\ nBlockPrioritySize = 0 /\ nBlockMinSize = 0
    /\ view = {}
    /\ mi = {}
    /\ vOrphan = <<>>
    /\ mapDependers = [h \in AllTxIds |-> <<>>]
    /\ vecPriority = EmptyBag
    /\ nBlockSize = 0 /\ nBlockTx = 0 /\ nBlockSigOps = 0 /\ fSortedByFee = FALSE
    /\ sproutValue = 0 /\ saplingValue = 0 /\ orchardValue = 0
    /\ monitoring_pool_balances = TRUE
    /\ vtx = <<>> /\ vTxFees = <<>> /\ vTxSigOps = <<>>
    /\ coinbase = NoCoinbase
    /\ exception = "none"
    /\ validity = "untested"
    /\ nCtxFree = 0
    /\ hashChainHistoryRoot = NullHash /\ hashAuthDataRoot = NullHash
    /\ hashBlockCommitments = NullHash
    /\ hashMerkleRoot = NullHash
    /\ MinerIdle
    /\ SideIdle
    /\ lastGate = NoGate

\* one call of CreateCoinbaseTransaction(chainparams, nFees, minerAddress, nHeight)
BuildCoinbase ==
    /\ pc = "coinbase"
    /\ \E fail \in FailPoints :
         LET r == CreateCoinbaseTransaction(chainparams, nFees, minerAddress, nHeight, fail)
         IN  /\ nCtxFree' = r.nCtxFree
             /\ IF r.exception # "none"
                THEN /\ pc' = "coinbase_threw"
                     /\ exception' = r.exception
                     /\ UNCHANGED coinbase
                ELSE /\ pc' = "coinbase_built"
                     /\ coinbase' = r.mtx
                     /\ UNCHANGED exception
    /\ UNCHANGED <<mempool, mapArgs, pindexPrev, chainparams, next_cb_mtx,
                   nBlockMaxSize, nBlockPrioritySize, nBlockMinSize, view, mi,
                   vOrphan, mapDependers, vecPriority,
                   nBlockSize, nBlockTx, nBlockSigOps, fSortedByFee,
                   sproutValue, saplingValue, orchardValue, monitoring_pool_balances,
                   vtx, vTxFees, vTxSigOps, nFees, minerAddress, validity, lastGate,
                   headerVars, minerVars>>

NextCoinbase == BuildCoinbase

SpecCoinbase == InitCoinbase /\ [][NextCoinbase]_vars

(***************************************************************************)
(* C6: for every coinbase CreateCoinbaseTransaction builds, with fees f    *)
(* and any of the three kinds of miner address, the transparent output     *)
(* values minus the Sapling and Orchard value balances equal the block     *)
(* subsidy plus f, in every subsidy era.                                    *)
(***************************************************************************)
C6_CoinbaseValue ==
    pc = "coinbase_built" =>
        SumSeq([i \in 1..Len(coinbase.vout) |-> coinbase.vout[i].nValue])
        - coinbase.valueBalanceSapling
        - coinbase.orchardBundle.valueBalance
            = chainparams.nBlockSubsidy + nFees

\* a coinbase to a Sapling address with a transparent and a Sapling funding
\* stream, and fees
C6_Witness ==
    /\ pc = "coinbase_built"
    /\ minerAddress = "sapling"
    /\ chainparams.fCanopy
    /\ Len(chainparams.fundingStreams) = 3
    /\ chainparams.nBlockSubsidy = 625000
    /\ nFees > 0
    /\ Len(coinbase.vShieldedOutput) = 2
    /\ Len(coinbase.vout) = 2

(***************************************************************************)
(* C7: the miner's output is worth the subsidy minus the funding stream    *)
(* amounts plus fees when Canopy is active, whatever the founders' reward  *)
(* height; the subsidy minus floor(subsidy / 5) plus fees when Canopy is   *)
(* not active and the height is at most the last founders' reward height;  *)
(* the subsidy plus fees otherwise.  With a transparent miner address it   *)
(* is vout[0], and the founders' and funding outputs have index >= 1.      *)
(***************************************************************************)
\* the value of the output the coinbase pays to the miner's address
MinerOutputValue ==
    CASE minerAddress = "script" -> coinbase.vout[1].nValue
      [] minerAddress = "sapling" ->
           LET k == CHOOSE k \in 1..Len(coinbase.vShieldedOutput) :
                        coinbase.vShieldedOutput[k].to = "miner"
           IN  coinbase.vShieldedOutput[k].value
      [] OTHER -> coinbase.orchardBundle.outputs[1].value

\* the miner's reward by era
MinerRewardByEra ==
    LET S == chainparams.nBlockSubsidy
        streams == chainparams.fundingStreams
    IN  IF chainparams.fCanopy
        THEN S - SumSeq([i \in 1..Len(streams) |-> streams[i].value]) + nFees
        ELSE IF nHeight <= chainparams.nLastFoundersRewardBlockHeight
        THEN S - (S \div 5) + nFees
        ELSE S + nFees

C7_MinerOutput ==
    pc = "coinbase_built" =>
        /\ MinerOutputValue = MinerRewardByEra
        /\ minerAddress = "script" =>
             /\ coinbase.vout[1].scriptPubKey = "reserveScript"
             /\ \A i \in 2..Len(coinbase.vout) :
                  coinbase.vout[i].scriptPubKey \in {"foundersScript", "fundingScript"}
        /\ minerAddress # "script" =>
             \A i \in 1..Len(coinbase.vout) :
                  coinbase.vout[i].scriptPubKey \in {"foundersScript", "fundingScript"}

\* Canopy is active at a height not above the last founders' reward height:
\* a transparent coinbase with the miner's output first and two funding
\* outputs after it
C7_Witness ==
    /\ pc = "coinbase_built"
    /\ minerAddress = "script"
    /\ chainparams.fCanopy
    /\ nHeight <= chainparams.nLastFoundersRewardBlockHeight
    /\ chainparams.nBlockSubsidy = 1250003
    /\ Len(coinbase.vout) = 3
    /\ coinbase.vout[1].nValue < chainparams.nBlockSubsidy

(***************************************************************************)
(* The size options on their own: every combination of the values below    *)
(* for the three options, an empty mempool, and the start of an assembly.  *)
(***************************************************************************)
\* values around the clamping thresholds, a negative one and two above the
\* range of unsigned int
SizeArgValues ==
    {-1, 0, 500, 700, 999, 1000, 1001,
     MAX_BLOCK_SIZE - 1001, MAX_BLOCK_SIZE - 1000, MAX_BLOCK_SIZE - 999,
     MAX_BLOCK_SIZE, MAX_BLOCK_SIZE + 1, UIntMod + 500, UIntMod + 1500}

InitClamp ==
    /\ pc = "start"
    /\ mempool = {}
    /\ \E a, b, c \in SizeArgValues : mapArgs = MkArgs(a, b, c)
    /\ pindexPrev = MkTip(Some(0), Some(0), Some(0))
    /\ chainparams = MkParams(FALSE, 0, FALSE, FALSE, 0, <<>>, "inactive", "sapling")
    /\ next_cb_mtx = FALSE
    /\ nBlockMaxSize = 0 /\ nBlockPrioritySize = 0 /\ nBlockMinSize = 0
    /\ view = {}
    /\ mi = {}
    /\ vOrphan = <<>>
    /\ mapDependers = [h \in AllTxIds |-> <<>>]
    /\ vecPriority = EmptyBag
    /\ nBlockSize = 0 /\ nBlockTx = 0 /\ nBlockSigOps = 0 /\ fSortedByFee = FALSE
    /\ sproutValue = 0 /\ saplingValue = 0 /\ orchardValue = 0
    /\ monitoring_pool_balances = TRUE
    /\ vtx = <<>> /\ vTxFees = <<>> /\ vTxSigOps = <<>> /\ nFees = 0
    /\ coinbase = NoCoinbase
    /\ minerAddress = "none"
    /\ exception = "none"
    /\ validity = "untested"
    /\ nCtxFree = 0
    /\ hashChainHistoryRoot = NullHash /\ hashAuthDataRoot = NullHash
    /\ hashBlockCommitments = NullHash
    /\ hashMerkleRoot = NullHash
    /\ MinerIdle
    /\ SideIdle
    /\ lastGate = NoGate

NextClamp == Begin

SpecClamp == InitClamp /\ [][NextClamp]_vars

(***************************************************************************)
(* C10 as stated: for all configured values, max_size is in                *)
(* [1000, MAX_BLOCK_SIZE - 1000], priority_size and min_size are in        *)
(* [0, max_size], blockmaxsize = 500 gives max_size 1000, and              *)
(* blockprioritysize > blockmaxsize gives priority_size = max_size.        *)
(***************************************************************************)
C10_ClampAsStated ==
    pc = "scan" =>
        /\ nBlockMaxSize >= 1000 /\ nBlockMaxSize <= MAX_BLOCK_SIZE - 1000
        /\ nBlockPrioritySize >= 0 /\ nBlockPrioritySize <= nBlockMaxSize
        /\ nBlockMinSize >= 0 /\ nBlockMinSize <= nBlockMaxSize
        /\ mapArgs.blockmaxsize = 500 => nBlockMaxSize = 1000
        /\ mapArgs.blockprioritysize > mapArgs.blockmaxsize => nBlockPrioritySize = nBlockMaxSize

(***************************************************************************)
(* C10, amended: for all configured values, max_size is in                 *)
(* [1000, MAX_BLOCK_SIZE - 1000], priority_size and min_size are in        *)
(* [0, max_size], blockmaxsize = 500 gives max_size 1000, and a            *)
(* blockprioritysize that, converted to unsigned int, is at least the      *)
(* effective max_size gives priority_size = max_size.                     *)
(***************************************************************************)
C10_Clamp ==
    pc = "scan" =>
        /\ nBlockMaxSize >= 1000 /\ nBlockMaxSize <= MAX_BLOCK_SIZE - 1000
        /\ nBlockPrioritySize >= 0 /\ nBlockPrioritySize <= nBlockMaxSize
        /\ nBlockMinSize >= 0 /\ nBlockMinSize <= nBlockMaxSize
        /\ mapArgs.blockmaxsize = 500 => nBlockMaxSize = 1000
        /\ mapArgs.blockprioritysize % UIntMod >= nBlockMaxSize =>
             nBlockPrioritySize = nBlockMaxSize

\* blockmaxsize = 500 was raised to 1000 and a blockprioritysize of 700,
\* above the configured 500, was kept
C10_Witness ==
    /\ pc = "scan"
    /\ mapArgs.blockmaxsize = 500
    /\ mapArgs.blockprioritysize = 700
    /\ nBlockMaxSize = 1000
    /\ nBlockPrioritySize = 700

(***************************************************************************)
(* C11: with a precomputed coinbase supplied, the returned template holds  *)
(* that coinbase and no other transaction, the fee total is 0 and          *)
(* vTxFees[0] = 0, whatever the mempool holds; an empty mempool gives a    *)
(* coinbase-only template with fees 0 as well.                              *)
(***************************************************************************)
C11_SuppliedCoinbase ==
    /\ (pc = "returned" /\ next_cb_mtx) =>
         /\ vtx = <<CoinbaseTx>>
         /\ coinbase = SuppliedCoinbase(chainparams, minerAddress).mtx
         /\ nFees = 0
         /\ vTxFees = <<0>>
    /\ (pc = "returned" /\ mempool = {}) =>
         /\ vtx = <<CoinbaseTx>>
         /\ nFees = 0
         /\ vTxFees = <<0>>

\* a template was returned for a supplied coinbase while the mempool held
\* three transactions, a fee-paying one without parents among them
C11_Witness ==
    /\ pc = "returned"
    /\ next_cb_mtx
    /\ Cardinality(mempool) = 3
    /\ 1 \in mempool
    /\ Len(vtx) = 1

(***************************************************************************)
(* C14: on every path through the coinbase builder, whatever the miner     *)
(* address flavour and whether the builder returns or throws (an exception *)
(* of a callee that the builder does not handle included), the Sapling     *)
(* proving context obtained at entry has been freed exactly once.         *)
(***************************************************************************)
C14_CtxFreedOnce ==
    pc \in {"coinbase_built", "coinbase_threw"} => nCtxFree = 1

(***************************************************************************)
(* C15: the header commitment of a returned template follows the upgrade   *)
(* state at the target height, tested in this order.  NU5 active: the      *)
(* history root is the one at the previous block's branch id, the          *)
(* auth-data root is the one of the template's transactions and            *)
(* hashBlockCommitments is derived from the two.  Otherwise, at the        *)
(* Heartwood activation height: all three are zero.  Otherwise, Heartwood  *)
(* active: the auth-data root is zero and hashBlockCommitments is the      *)
(* history root.  Otherwise: both roots are zero and hashBlockCommitments  *)
(* is the root of the tip's Sapling tree with the output commitments of    *)
(* the template appended in transaction order, then output order.          *)
(***************************************************************************)
\* the number of Sapling outputs of the template transaction at position p
TemplateOutputs(p) ==
    IF p = 1 THEN Len(coinbase.vShieldedOutput) ELSE NShieldedOutput(vtx[p].id)

\* the number of Sapling outputs of the template transactions before p
TemplateOutputsBefore(p) == SumSeq([q \in 1..(p - 1) |-> TemplateOutputs(q)])

C15_HeaderCommitment ==
    pc = "returned" =>
      IF chainparams.fNU5
      THEN /\ hashChainHistoryRoot = <<"history", chainparams.prevBranchId>>
           /\ hashAuthDataRoot = <<"auth", coinbase, Tail(vtx)>>
           /\ hashBlockCommitments =
                <<"commitments", hashChainHistoryRoot, hashAuthDataRoot>>
      ELSE IF chainparams.heartwood = "activation"
      THEN /\ hashChainHistoryRoot = NullHash
           /\ hashAuthDataRoot = NullHash
           /\ hashBlockCommitments = NullHash
      ELSE IF chainparams.heartwood = "active"
      THEN /\ hashChainHistoryRoot = <<"history", chainparams.prevBranchId>>
           /\ hashAuthDataRoot = NullHash
           /\ hashBlockCommitments = hashChainHistoryRoot
      ELSE /\ hashChainHistoryRoot = NullHash
           /\ hashAuthDataRoot = NullHash
           /\ hashBlockCommitments[1] = "saplingroot"
           /\ LET tree == hashBlockCommitments[2]
                  nTip == Len(SaplingTreeAtTip)
              IN  /\ SubSeq(tree, 1, nTip) = SaplingTreeAtTip
                  /\ Len(tree) = nTip + TemplateOutputsBefore(Len(vtx) + 1)
                  /\ \A p \in 1..Len(vtx) : \A k \in 1..TemplateOutputs(p) :
                        tree[nTip + TemplateOutputsBefore(p) + k] = <<vtx[p].id, k>>

\* a template returned at a height that activates Heartwood and NU5 at
\* once, with mempool transactions in it
C15_Witness ==
    /\ pc = "returned"
    /\ chainparams.fNU5 /\ chainparams.heartwood = "activation"
    /\ Len(vtx) > 2
    /\ hashBlockCommitments # NullHash

(***************************************************************************)
(* C20: with the dependency chain A, B (spends A), C (spends B and A) as   *)
(* the mempool, each paying a fee, a template that holds all three holds   *)
(* them as [coinbase, A, B, C] with the three fees summed, and under the   *)
(* default size options every returned template built from the mempool     *)
(* holds all three.  During selection an orphan enters the queue exactly   *)
(* in the step that accepts the last of its mempool parents.               *)
(***************************************************************************)
TemplateIds == {vtx[i].id : i \in TemplatePositions}

\* the mempool transactions whose outputs transaction id spends
ParentsInMempool(id) == {Tx(id).vin[k][1] : k \in 1..Len(Tx(id).vin)} \cap mempool

InQueue(queue, id) == \E e \in BagToSet(queue) : e.ptx = id

C20_ChainTemplate ==
    (pc = "returned" /\ mempool = {1, 2, 3}) =>
      /\ {1, 2, 3} \subseteq TemplateIds =>
           /\ vtx = <<CoinbaseTx, MempoolTx(1), MempoolTx(2), MempoolTx(3)>>
           /\ nFees = ActualFee(1) + ActualFee(2) + ActualFee(3)
           /\ ActualFee(1) > 0 /\ ActualFee(2) > 0 /\ ActualFee(3) > 0
      /\ ( /\ ~next_cb_mtx
           /\ mapArgs = MkArgs(DEFAULT_BLOCK_MAX_SIZE, DEFAULT_BLOCK_PRIORITY_SIZE,
                               DEFAULT_BLOCK_MIN_SIZE) )
           => {1, 2, 3} \subseteq TemplateIds

C20_PushedWithLastParent ==
    (pc = "collect" /\ pc' = "collect") =>
      \A a \in 1..Len(vOrphan) :
         vOrphan[a].live =>
            ( (~InQueue(vecPriority, vOrphan[a].ptx) /\ InQueue(vecPriority', vOrphan[a].ptx))
              <=> ( /\ Len(vtx') = Len(vtx) + 1
                    /\ vtx'[Len(vtx')].id \in ParentsInMempool(vOrphan[a].ptx)
                    /\ \A h \in ParentsInMempool(vOrphan[a].ptx) :
                          \E i \in 2..Len(vtx') : vtx'[i].id = h ) )

C20_DependencyChain == []C20_ChainTemplate /\ [][C20_PushedWithLastParent]_vars

\* the chain A, B, C returned in this order from the three-transaction mempool
C20_Witness ==
    /\ pc = "returned" /\ mempool = {1, 2, 3}
    /\ vtx = <<CoinbaseTx, MempoolTx(1), MempoolTx(2), MempoolTx(3)>>
    /\ nFees = 63

(***************************************************************************)
(* The internal miner: IncrementExtraNonce, ProcessBlockFound and          *)
(* BitcoinMiner, lines 849-1142, for one mining thread.                    *)
(***************************************************************************)
\* the tips the chain may reach while the thread runs
MaxTip == 2
\* the rebuilds on one tip a run of the model follows
MaxExtraNonce == 2
\* the nonce value whose low bits make the thread rebuild, standing for 0xffff
MaxNonce == 1

\* pindex->nHeight of tip k
TipHeightOf(k) == TipHeight + k - 1

\* what the chain parameters answer at height h, given what they answer at
\* the height after the first tip: an upgrade that activates there is
\* active above it
ParamsAtHeight(cp, h) ==
    IF h <= TipHeight + 1 THEN cp
    ELSE IF cp.fNU5Next
    THEN [cp EXCEPT !.fNU5 = TRUE, !.fNU5Next = FALSE,
                    !.prevBranchId = IF h = TipHeight + 2 THEN @ ELSE "nu5"]
    ELSE IF cp.heartwood # "activation" THEN cp
    ELSE [cp EXCEPT !.heartwood = "active",
                    !.prevBranchId = IF cp.fNU5 THEN "nu5" ELSE "heartwood"]

\* COINBASE_FLAGS: no bytes
COINBASE_FLAGS == <<>>

\* the 32-bit value of a height
ToUInt32(n) == UInt32(n \div 65536, n % 65536)

\* ++nExtraNonce on an unsigned int
IncUInt32(v) ==
    IF v.lo = 65535 THEN UInt32((v.hi + 1) % 65536, 0) ELSE UInt32(v.hi, v.lo + 1)

\* CScriptNum::serialize: the bytes of a value >= 0, least significant
\* first, with one more byte when the top bit of the last is set
CScriptNumSize(v) ==
    IF v.hi = 0
    THEN IF v.lo = 0 THEN 0
         ELSE IF v.lo < 128 THEN 1
         ELSE IF v.lo < 32768 THEN 2
         ELSE 3
    ELSE IF v.hi < 128 THEN 3
    ELSE IF v.hi < 32768 THEN 4
    ELSE 5

\* CScript::operator<<(int64_t): one opcode for 0..16, else a push of the
\* serialized number
PushInt64Size(v) == IF v.hi = 0 /\ v.lo <= 16 THEN 1 ELSE 1 + CScriptNumSize(v)

\* CScript::operator<<(const CScriptNum&): a push of the serialized number
PushScriptNumSize(v) == 1 + CScriptNumSize(v)

\* scriptSig.size()
GetScriptSigSize(sig) ==
    CASE sig.form = "height_op0" -> PushInt64Size(ToUInt32(sig.nHeight)) + 1
      [] sig.form = "height_nonce_flags" ->
            PushInt64Size(ToUInt32(sig.nHeight)) + PushScriptNumSize(sig.nExtraNonce)
            + Len(COINBASE_FLAGS)
      [] OTHER -> 0

\* the variant that leaves the scriptSig as CreateCoinbaseTransaction set it
ExtraNonceScriptSigKept(h, n) == ScriptSig("height_op0", h, UInt32(0, 0))

\* line 866
ExtraNonceScriptSig(h, n) == ScriptSig("height_nonce_flags", h, n)

\* IncrementExtraNonce, lines 849-877: tpl is the template, prev the
\* pindexPrev the caller passes, extra its counter, static the function's
\* static hashPrevBlock, fNU5 what consensusParams answers for NU5 at
\* prev's height + 1
IncrementExtraNonce(tpl, prev, extra, static, fNU5) ==
    LET fReset == static # tpl.hashPrevBlock
        n == IncUInt32(IF fReset THEN UInt32(0, 0) ELSE extra)
        h == prev.nHeight + 1
        txCoinbase == [tpl.coinbase EXCEPT !.vin[1].scriptSig = ExtraNonceScriptSig(h, n)]
        auth == IF fNU5 THEN BuildAuthDataMerkleTree(tpl.vtx, txCoinbase)
                ELSE tpl.hashAuthDataRoot
    IN  [coinbase |-> txCoinbase,
         nExtraNonce |-> n,
         hashPrevBlockStatic |-> tpl.hashPrevBlock,
         fAssert |-> GetScriptSigSize(txCoinbase.vin[1].scriptSig) <= 100,
         hashMerkleRoot |-> BuildMerkleTree(tpl.vtx, txCoinbase),
         hashAuthDataRoot |-> auth,
         hashBlockCommitments |->
             IF fNU5 THEN DeriveBlockCommitmentsHash(tpl.hashChainHistoryRoot, auth)
             ELSE tpl.hashBlockCommitments]

\* the variant that submits the block whatever the tip is
ProcessBlockFoundAnyTip(hashPrev, tip, fAccept) ==
    [fStale |-> hashPrev # tip, fBlockFound |-> TRUE, fProcessNewBlock |-> TRUE,
     ret |-> fAccept]

\* ProcessBlockFound, lines 879-902; fAccept is ProcessNewBlock's answer
ProcessBlockFound(hashPrev, tip, fAccept) ==
    IF hashPrev # tip
    THEN [fStale |-> TRUE, fBlockFound |-> FALSE, fProcessNewBlock |-> FALSE, ret |-> FALSE]
    ELSE [fStale |-> FALSE, fBlockFound |-> TRUE, fProcessNewBlock |-> TRUE,
          ret |-> fAccept]

\* the variant that takes any address for a miner address
IsValidMinerAddressAlways(maybe) == TRUE

\* line 935: maybeMinerAddress.has_value() and IsValidMinerAddress
IsValidMinerAddress(maybe) == maybe \in MinerAddresses

\* the NotifyBlockTip listener is connected: from line 925 until one of the
\* c.disconnect() of lines 1129, 1136 and 1141, which an exception without a
\* handler in the thread does not reach
Connected ==
    minerPc \in {"loop_top", "create", "increment", "search", "solver", "checks", "aborted"}

Networks ==
    { [fMiningRequiresPeers |-> TRUE, fMineBlocksOnDemand |-> FALSE],
      [fMiningRequiresPeers |-> FALSE, fMineBlocksOnDemand |-> TRUE] }

\* the template the thread holds
Template ==
    [vtx |-> vtx, coinbase |-> coinbase, hashPrevBlock |-> hashPrevBlock,
     hashChainHistoryRoot |-> hashChainHistoryRoot,
     hashAuthDataRoot |-> hashAuthDataRoot,
     hashBlockCommitments |-> hashBlockCommitments]

\* the assembler's own state, which the thread's steps leave alone
assemblerVars ==
    <<sideVars, pc, mempool, mapArgs, pindexPrev, next_cb_mtx,
      nBlockMaxSize, nBlockPrioritySize, nBlockMinSize, view, mi,
      vOrphan, mapDependers, vecPriority,
      nBlockSize, nBlockTx, nBlockSigOps, fSortedByFee,
      sproutValue, saplingValue, orchardValue, monitoring_pool_balances,
      vTxFees, vTxSigOps, nFees, validity, nCtxFree, lastGate>>

\* the parts of the thread's state that are set once
minerConfig == <<maybeMinerAddress, solver, network, chainparams>>

\* the template
templateVars == <<vtx, coinbase, hashPrevBlock, headerVars>>

\* lines 906-938: the thread starts; without a valid miner address it
\* throws the runtime error that lines 1133-1139 catch
MinerStart ==
    /\ minerPc = "start"
    /\ IF IsValidMinerAddress(maybeMinerAddress)
       THEN /\ minerPc' = "loop_top"
            /\ minerAddress' = maybeMinerAddress
            /\ UNCHANGED exception
       ELSE /\ minerPc' = "terminated"
            /\ exception' = "runtime_error"
            /\ UNCHANGED minerAddress
    /\ UNCHANGED <<assemblerVars, minerConfig, templateVars, cancelSolver, chainTip,
                   vNodesEmpty, fInitialBlockDownload, minerPindexPrev, nNonce, nExtraNonce,
                   hashPrevBlockStatic, lastFound>>

\* the variant that does not ask about the initial block download
PeersPollIgnoresIBD == network.fMiningRequiresPeers => ~vNodesEmpty

\* lines 941-956: the poll of the wait loop lets the thread through; a
\* chain that does not require peers has no wait loop
PeersPollPasses ==
    network.fMiningRequiresPeers => (~vNodesEmpty /\ ~fInitialBlockDownload)

\* lines 940-973: the wait for peers and for the end of the initial block
\* download, then the read of the tip; a sleep leaves everything as it is.
\* The template of the round before, and what ProcessBlockFound did with
\* it, are gone by here
MinerReadTip ==
    /\ minerPc = "loop_top"
    /\ IF ~PeersPollPasses
       THEN UNCHANGED <<minerPc, minerPindexPrev, lastFound>>
       ELSE IF chainTip = 0
       THEN UNCHANGED <<minerPc, minerPindexPrev, lastFound>>
       ELSE /\ minerPindexPrev' = BlockIndex(chainTip, TipHeightOf(chainTip))
            /\ lastFound' = NoFound
            /\ minerPc' = "create"
    /\ UNCHANGED <<assemblerVars, minerConfig, templateVars, minerAddress, exception,
                   cancelSolver, chainTip, vNodesEmpty, fInitialBlockDownload, nNonce, nExtraNonce,
                   hashPrevBlockStatic>>

\* line 974 and lines 1126-1139: CreateNewBlock for an empty mempool on the
\* tip of that moment.  A std::runtime_error ends the thread; what the
\* coinbase builder throws (a pointer, a std::logic_error, anything a callee
\* raised) has no handler in the thread
MinerCreateNewBlock ==
    /\ minerPc = "create"
    /\ \E fail \in FailPoints :
         LET h == TipHeightOf(chainTip) + 1
             cp == ParamsAtHeight(chainparams, h)
             r == CreateCoinbaseTransaction(cp, 0, minerAddress, h, fail)
         IN  IF r.exception # "none"
             THEN /\ minerPc' = "aborted"
                  /\ exception' = r.exception
                  /\ UNCHANGED <<templateVars, nNonce>>
             ELSE \E fValid \in BOOLEAN :
                    IF ~fValid
                    THEN /\ minerPc' = "terminated"
                         /\ exception' = "runtime_error"
                         /\ UNCHANGED <<templateVars, nNonce>>
                    ELSE /\ vtx' = <<CoinbaseTx>>
                         /\ coinbase' = r.mtx
                         /\ hashPrevBlock' = chainTip
                         /\ SetHeader(HeaderCommitments(cp, <<CoinbaseTx>>, r.mtx))
                         /\ nNonce' = 0
                         /\ minerPc' = "increment"
                         /\ UNCHANGED exception
    /\ UNCHANGED <<assemblerVars, minerConfig, minerAddress, cancelSolver, chainTip,
                   vNodesEmpty, fInitialBlockDownload, minerPindexPrev, nExtraNonce, hashPrevBlockStatic,
                   lastFound>>

\* line 987: IncrementExtraNonce on the new template
MinerIncrementExtraNonce ==
    /\ minerPc = "increment"
    /\ LET r == IncrementExtraNonce(Template, minerPindexPrev, nExtraNonce,
                                    hashPrevBlockStatic,
                                    ParamsAtHeight(chainparams, minerPindexPrev.nHeight + 1).fNU5)
       IN  /\ r.nExtraNonce.hi = 0 /\ r.nExtraNonce.lo <= MaxExtraNonce
           /\ coinbase' = r.coinbase
           /\ nExtraNonce' = r.nExtraNonce
           /\ hashPrevBlockStatic' = r.hashPrevBlockStatic
           /\ hashMerkleRoot' = r.hashMerkleRoot
           /\ hashAuthDataRoot' = r.hashAuthDataRoot
           /\ hashBlockCommitments' = r.hashBlockCommitments
           /\ minerPc' = IF r.fAssert THEN "search" ELSE "aborted"
    /\ UNCHANGED <<assemblerVars, minerConfig, vtx, hashPrevBlock, hashChainHistoryRoot,
                   minerAddress, exception, cancelSolver, chainTip, vNodesEmpty, fInitialBlockDownload,
                   minerPindexPrev, nNonce, lastFound>>

\* the variant in which no solver asks
SolverNeverCancelled == FALSE

\* lines 1050-1053 and 1091: the cancel check, which only the default
\* solver is given, answers with the flag
SolverCancelled == solver = "default" /\ cancelSolver

\* lines 1056-1100, up to the last place a solver asks whether it is
\* cancelled: the default solver that sees the flag throws
\* EhSolverCancelledException, whose handler resets the flag; the tromp
\* solver never asks
SolverStart ==
    /\ minerPc = "search"
    /\ IF SolverCancelled
       THEN /\ cancelSolver' = FALSE
            /\ minerPc' = "checks"
       ELSE /\ minerPc' = "solver"
            /\ UNCHANGED cancelSolver
    /\ UNCHANGED <<assemblerVars, minerConfig, templateVars, minerAddress, exception,
                   chainTip, vNodesEmpty, fInitialBlockDownload, minerPindexPrev, nNonce, nExtraNonce,
                   hashPrevBlockStatic, lastFound>>

\* the stop of lines 1042-1046 taken on every chain
AfterFoundStops == "interrupted"

\* where the thread goes after validBlock found a solution that meets the
\* target (lines 1043-1048, 1081-1085, 1093-1096)
AfterFound ==
    IF network.fMineBlocksOnDemand THEN "interrupted"
    ELSE IF solver = "default" THEN "loop_top"
    ELSE "checks"

\* the end of a solver run: no solution meets the target, or one does and
\* validBlock (lines 1017-1049) hands it to ProcessBlockFound.  A block that
\* ProcessNewBlock accepts becomes the tip
SolverFinish ==
    /\ minerPc = "solver"
    /\ \/ /\ minerPc' = "checks"
          /\ UNCHANGED <<lastFound, chainTip, cancelSolver>>
       \/ \E fAccept \in {a \in BOOLEAN : a => chainTip < MaxTip} :
            LET found == ProcessBlockFound(hashPrevBlock, chainTip, fAccept)
            IN  /\ lastFound' = found
                /\ chainTip' = IF found.ret THEN chainTip + 1 ELSE chainTip
                /\ cancelSolver' = IF found.ret THEN FALSE ELSE cancelSolver
                /\ minerPc' = AfterFound
    /\ UNCHANGED <<assemblerVars, minerConfig, templateVars, minerAddress, exception,
                   vNodesEmpty, fInitialBlockDownload, minerPindexPrev, nNonce, nExtraNonce, hashPrevBlockStatic>>

\* lines 1102-1122: rebuild, or the next nonce
MinerChecks ==
    /\ minerPc = "checks"
    /\ \E fMempoolUpdated \in BOOLEAN :
         IF \/ vNodesEmpty /\ network.fMiningRequiresPeers
            \/ nNonce = MaxNonce
            \/ fMempoolUpdated
            \/ minerPindexPrev.hash # chainTip
         THEN /\ minerPc' = "loop_top"
              /\ UNCHANGED nNonce
         ELSE /\ nNonce' = nNonce + 1
              /\ minerPc' = "search"
    /\ UNCHANGED <<assemblerVars, minerConfig, templateVars, minerAddress, exception,
                   cancelSolver, chainTip, vNodesEmpty, fInitialBlockDownload, minerPindexPrev, nExtraNonce,
                   hashPrevBlockStatic, lastFound>>

\* the thread has not returned or thrown
Running == minerPc \notin {"terminated", "aborted", "interrupted"}

\* another block becomes the tip while the thread runs; the listener of
\* lines 925-930 raises the flag while it is connected
TipAdvance ==
    /\ Running
    /\ chainTip < MaxTip
    /\ chainTip' = chainTip + 1
    /\ cancelSolver' = (cancelSolver \/ Connected)
    /\ UNCHANGED <<assemblerVars, minerConfig, templateVars, minerAddress, exception,
                   minerPc, vNodesEmpty, fInitialBlockDownload, minerPindexPrev, nNonce, nExtraNonce,
                   hashPrevBlockStatic, lastFound>>

\* peers connect or disconnect while the thread runs; a chain that does
\* not require peers is mined solo (line 943)
PeersChange ==
    /\ Running
    /\ network.fMiningRequiresPeers
    /\ vNodesEmpty' = ~vNodesEmpty
    /\ UNCHANGED <<assemblerVars, minerConfig, templateVars, minerAddress, exception,
                   minerPc, cancelSolver, chainTip, fInitialBlockDownload, minerPindexPrev,
                   nNonce, nExtraNonce, hashPrevBlockStatic, lastFound>>

\* the initial block download ends, or the node falls behind again.  The
\* answer is read in the wait loop alone, so the changes elsewhere are left
\* out: the wait loop sees every answer either way
IBDChange ==
    /\ minerPc = "loop_top"
    /\ network.fMiningRequiresPeers
    /\ fInitialBlockDownload' = ~fInitialBlockDownload
    /\ UNCHANGED <<assemblerVars, minerConfig, templateVars, minerAddress, exception,
                   minerPc, cancelSolver, chainTip, vNodesEmpty, minerPindexPrev,
                   nNonce, nExtraNonce, hashPrevBlockStatic, lastFound>>

\* the chains the mining thread runs on: one before Heartwood, one with NU5
\* Canopy with funding streams, ZIP 209; NU5 activates at the height after
\* the target height of the first tip
NU5NextParams ==
    [MkParams(TRUE, TipHeight - 100, TRUE, FALSE, 625000,
              <<FS("script", 43750), FS("sapling", 31250)>>, "active", "canopy")
        EXCEPT !.fNU5Next = TRUE]

MinerChainParamsSet ==
    {cp \in ChainParamsSet : cp.fNU5 \/ cp.heartwood = "inactive"} \cup {NU5NextParams}

InitMiner ==
    /\ pc = "miner"
    /\ mempool = {}
    /\ mapArgs = MkArgs(DEFAULT_BLOCK_MAX_SIZE, DEFAULT_BLOCK_PRIORITY_SIZE,
                        DEFAULT_BLOCK_MIN_SIZE)
    /\ pindexPrev = MkTip(Some(0), Some(0), Some(0))
    /\ chainparams \in MinerChainParamsSet
    /\ next_cb_mtx = FALSE
    /\ nBlockMaxSize = 0 /\ nBlockPrioritySize = 0 /\ nBlockMinSize = 0
    /\ view = {}
    /\ mi = {}
    /\ vOrphan = <<>>
    /\ mapDependers = [h \in AllTxIds |-> <<>>]
    /\ vecPriority = EmptyBag
    /\ nBlockSize = 0 /\ nBlockTx = 0 /\ nBlockSigOps = 0 /\ fSortedByFee = FALSE
    /\ sproutValue = 0 /\ saplingValue = 0 /\ orchardValue = 0
    /\ monitoring_pool_balances = TRUE
    /\ vtx = <<>> /\ vTxFees = <<>> /\ vTxSigOps = <<>> /\ nFees = 0
    /\ coinbase = NoCoinbase
    /\ minerAddress = "none"
    /\ exception = "none"
    /\ validity = "untested"
    /\ nCtxFree = 0
    /\ hashChainHistoryRoot = NullHash /\ hashAuthDataRoot = NullHash
    /\ hashBlockCommitments = NullHash
    /\ hashMerkleRoot = NullHash
    /\ lastGate = NoGate
    /\ SideIdle
    /\ minerPc = "start"
    /\ maybeMinerAddress \in MinerAddresses \cup {"none", "invalid"}
    /\ solver \in {"default", "tromp"}
    /\ network \in Networks
    /\ cancelSolver = FALSE
    /\ chainTip \in {0, 1}
    /\ vNodesEmpty \in {e \in BOOLEAN : network.fMiningRequiresPeers \/ e}
    /\ fInitialBlockDownload \in {b \in BOOLEAN : network.fMiningRequiresPeers \/ ~b}
    /\ minerPindexPrev = BlockIndex(0, 0)
    /\ nNonce = 0
    /\ nExtraNonce = UInt32(0, 0)
    /\ hashPrevBlock = 0
    /\ hashPrevBlockStatic = 0
    /\ lastFound = NoFound

MinerStep ==
    \/ MinerStart
    \/ MinerReadTip
    \/ MinerCreateNewBlock
    \/ MinerIncrementExtraNonce
    \/ SolverStart
    \/ SolverFinish
    \/ MinerChecks

NextMiner ==
    \/ MinerStep
    \/ TipAdvance
    \/ PeersChange
    \/ IBDChange

SpecMiner == InitMiner /\ [][NextMiner]_vars

\* the thread is scheduled again and again, and a solver run ends
FairSpecMiner == SpecMiner /\ WF_vars(MinerStep)

\* the height of the block the template is for
TemplateHeight == TipHeightOf(hashPrevBlock) + 1

\* the thread holds a template that went through IncrementExtraNonce
TemplateInSearch == minerPc \in {"search", "solver", "checks"}

(***************************************************************************)
(* C12: the coinbase of a template, as CreateCoinbaseTransaction built it  *)
(* and after the IncrementExtraNonce calls of the thread, has exactly one  *)
(* input, whose prevout is null, and its nExpiryHeight is the height of    *)
(* the block when NU5 is active at that height and 0 otherwise.            *)
(***************************************************************************)
C12_CoinbaseInput ==
    (minerPc = "increment" \/ TemplateInSearch) =>
       /\ Len(coinbase.vin) = 1
       /\ coinbase.vin[1].prevout = "null"
       /\ coinbase.nExpiryHeight =
            IF ParamsAtHeight(chainparams, TemplateHeight).fNU5 THEN TemplateHeight ELSE 0

\* a second template on the same tip went through IncrementExtraNonce, with
\* NU5 active, on a tip that came while the thread ran
C12_Witness ==
    /\ TemplateInSearch
    /\ nExtraNonce = UInt32(0, 2)
    /\ chainparams.fNU5
    /\ hashPrevBlock = 2
    /\ coinbase.nExpiryHeight = TipHeight + 2

(***************************************************************************)
(* C13: the scriptSig of the coinbase is the height of the block followed  *)
(* by OP_0 when the coinbase is created, and after IncrementExtraNonce it  *)
(* is the height of the block, the thread's extra-nonce and COINBASE_FLAGS *)
(* in at most 100 bytes; the size assertion of IncrementExtraNonce never   *)
(* fails.                                                                   *)
(***************************************************************************)
C13_ScriptSig ==
    /\ minerPc = "increment" =>
          coinbase.vin[1].scriptSig = [form |-> "height_op0", nHeight |-> TemplateHeight,
                                       nExtraNonce |-> UInt32(0, 0)]
    /\ TemplateInSearch =>
          /\ coinbase.vin[1].scriptSig =
                [form |-> "height_nonce_flags", nHeight |-> TemplateHeight,
                 nExtraNonce |-> nExtraNonce]
          /\ nExtraNonce # UInt32(0, 0)
          /\ GetScriptSigSize(coinbase.vin[1].scriptSig) <= 100
    /\ minerPc = "aborted" => exception # "none"

(***************************************************************************)
(* C17: a mining thread that starts without a valid miner address ends     *)
(* with the runtime error, and never builds a template or runs the solver. *)
(***************************************************************************)
C17_NoMinerAddress ==
    maybeMinerAddress \notin {"script", "sapling", "orchard"} =>
       /\ minerPc \in {"start", "terminated"}
       /\ minerPc = "terminated" => exception = "runtime_error"
       /\ coinbase = NoCoinbase /\ vtx = <<>> /\ hashPrevBlock = 0
       /\ minerPindexPrev = BlockIndex(0, 0)
       /\ nExtraNonce = UInt32(0, 0) /\ lastFound = NoFound

\* the thread ended for want of an address, and the chain went on
C17_Witness ==
    /\ maybeMinerAddress = "none"
    /\ minerPc = "terminated"
    /\ chainTip = MaxTip

SearchingBehindTip ==
    /\ minerPc \in {"search", "solver"}
    /\ hashPrevBlock # chainTip

\* CreateNewBlock has just returned a template built on the tip; the thread
\* gets here from its inner loop only with another template
FreshTemplate ==
    /\ minerPc = "increment"
    /\ hashPrevBlock = chainTip

\* the thread has ended: the stop after a solution on a chain that mines
\* blocks on demand, or CreateNewBlock failed
ThreadEnded ==
    \/ minerPc = "interrupted" /\ network.fMineBlocksOnDemand /\ lastFound # NoFound
    \/ minerPc \in {"terminated", "aborted"} /\ exception # "none"

\* the thread has left the inner loop and is at the wait of lines 941-956
WaitingForPeers ==
    minerPc = "loop_top" /\ network.fMiningRequiresPeers

SwitchScenario == mempool = SwitchMempool /\ mapArgs = SwitchArgs /\ ~next_cb_mtx

\* the ids of the template after the coinbase, in order
TemplateOrder == [i \in 1..(Len(vtx) - 1) |-> vtx[i + 1].id]

C21_PriorityThenFee ==
    (SwitchScenario /\ pc = "returned") =>
        /\ Len(vtx) = 12
        /\ vtx[1].kind = "coinbase"
        /\ {TemplateOrder[i] : i \in 1..10} = SwitchPriorityTxs
        /\ TemplateOrder[11] = SwitchFeeTx

\* a template of the scenario is returned; the comparator changed to by-fee
\* on the way
C21_Witness ==
    /\ SwitchScenario
    /\ pc = "returned"
    /\ fSortedByFee
    /\ Len(vtx) = 12

(***************************************************************************)
(* C22: with a mempool of one transaction with MAX_BLOCK_SIGOPS legacy     *)
(* sigops and one tiny transaction, the transaction with MAX_BLOCK_SIGOPS  *)
(* sigops is skipped at the legacy sigops gate and is in no template, and  *)
(* the tiny transaction is in every returned template.                      *)
(***************************************************************************)
SigOpsScenario == mempool = SigOpsMempool /\ ~next_cb_mtx

\* the claim as stated: the first is selected and the second is left out
C22_FirstSelected ==
    (SigOpsScenario /\ pc = "returned") =>
        /\ SigOpsTx \in TemplateIds
        /\ TinyTx \notin TemplateIds

C22_FirstSkipped ==
    SigOpsScenario =>
        /\ SigOpsTx \notin TemplateIds
        /\ lastGate.tx = SigOpsTx => lastGate.gate = "sigops"
        /\ pc = "returned" => TinyTx \in TemplateIds

\* the template of the scenario is returned with the tiny transaction alone
C22_Witness ==
    /\ SigOpsScenario
    /\ pc = "returned"
    /\ TemplateIds = {TinyTx}

CancelledRun ==
    /\ minerPc = "search" /\ solver = "default" /\ cancelSolver
    /\ minerPc' = "checks" /\ ~cancelSolver'

\* the step in which the thread's own block is accepted
OwnBlockAccepted == minerPc = "solver" /\ lastFound'.ret /\ chainTip' # chainTip

InPeersWait == minerPc = "loop_top" /\ network.fMiningRequiresPeers

\* what the thread itself reads and writes
threadVars ==
    <<minerPc, templateVars, minerPindexPrev, nNonce, nExtraNonce, hashPrevBlockStatic,
      lastFound, minerAddress, exception>>

C25_BuildsAfterPoll ==
    [][/\ (InPeersWait /\ minerPc' = "create")
            => (~vNodesEmpty /\ ~fInitialBlockDownload)
       /\ (InPeersWait /\ (vNodesEmpty \/ fInitialBlockDownload))
            => UNCHANGED threadVars]_vars

C25_ProceedsToBuild ==
    (InPeersWait /\ ~vNodesEmpty /\ ~fInitialBlockDownload /\ chainTip # 0)
        ~> (minerPc = "create" \/ vNodesEmpty \/ fInitialBlockDownload)

C25_PeersWait == C25_BuildsAfterPoll /\ C25_ProceedsToBuild

\* the thread left the wait loop on a chain that requires peers, on a tip
\* that arrived while it ran
C25_Witness ==
    /\ network.fMiningRequiresPeers
    /\ minerPc = "create"
    /\ ~vNodesEmpty /\ ~fInitialBlockDownload
    /\ minerPindexPrev.hash = MaxTip

(***************************************************************************)
(* The nonce of a template and its search, lines 719-724 and 1103-1117.    *)
(* arith_uint256 is a 256-bit unsigned integer; the shifts of the code are *)
(* by multiples of 16 bits, so they move whole limbs.                       *)
(***************************************************************************)
\* arith_uint256::operator<<= by 16 * n bits
ShiftLeftLimbs(a, n) == [i \in 1..16 |-> IF i > n THEN a[i - n] ELSE 0]

\* arith_uint256::operator>>= by 16 * n bits
ShiftRightLimbs(a, n) == [i \in 1..16 |-> IF i + n <= 16 THEN a[i + n] ELSE 0]

\* the variant that shifts right first
RandomisedNonceRightFirst(rand) == ShiftLeftLimbs(ShiftRightLimbs(rand, 1), 2)

\* lines 720-724: nonce <<= 32; nonce >>= 16
RandomisedNonce(rand) == ShiftRightLimbs(ShiftLeftLimbs(rand, 2), 1)

\* the variant that counts in the bits 16 and above
AddOneHigh(a) == [i \in 1..16 |-> IF i = 2 THEN (a[i] + 1) % 65536 ELSE a[i]]

\* arith_uint256 + 1: a limb changes when all the limbs below it are full
AddOne(a) ==
    [i \in 1..16 |->
        IF \A j \in 1..(i - 1) : a[j] = 65535 THEN (a[i] + 1) % 65536 ELSE a[i]]


\* line 1107: (UintToArith256(pblock->nNonce) & 0xffff) == 0xffff
NonceExhausted(a) == a[1] = 65535

\* the values GetRandHash returns in the model: all bits set, all limbs
\* different, and the top limbs alone
RandHashes ==
    { [i \in 1..16 |-> 65535],
      [i \in 1..16 |-> (i * 4099 + 7) % 65536],
      [i \in 1..16 |-> IF i > 14 THEN 40000 + i ELSE 0] }

\* lines 719-724: CreateNewBlock stores the randomised nonce
NonceCreate ==
    /\ noncePc = "create"
    /\ \E rand \in RandHashes :
         /\ randHash' = rand
         /\ pblockNonce' = RandomisedNonce(rand)
    /\ nSolverRuns' = 0
    /\ noncePc' = "search"
    /\ UNCHANGED <<mainVars, lockVars, timeVars, extraNonceVars>>

\* everything but the nonce and the count of the runs
nonceFrame == <<mainVars, lockVars, timeVars, extraNonceVars, randHash>>

\* lines 1056-1100: one run of the solver on the header with this nonce
NonceSolve ==
    /\ noncePc = "search"
    /\ nSolverRuns' = nSolverRuns + 1
    /\ noncePc' = "checks"
    /\ UNCHANGED <<nonceFrame, pblockNonce>>

\* lines 1103-1117: the template is abandoned when the low 16 bits of the
\* nonce are all set, or for one of the other reasons (fOther); else the
\* nonce goes up by one
NonceChecks ==
    /\ noncePc = "checks"
    /\ \E fOther \in BOOLEAN :
         IF NonceExhausted(pblockNonce) \/ fOther
         THEN /\ noncePc' = "create"
              /\ UNCHANGED pblockNonce
         ELSE /\ pblockNonce' = AddOne(pblockNonce)
              /\ noncePc' = "search"
    /\ UNCHANGED <<nonceFrame, nSolverRuns>>

\* no call of CreateNewBlock is under way
AssemblerIdle ==
    /\ pc = "idle"
    /\ mempool = {}
    /\ mapArgs = MkArgs(DEFAULT_BLOCK_MAX_SIZE, DEFAULT_BLOCK_PRIORITY_SIZE,
                        DEFAULT_BLOCK_MIN_SIZE)
    /\ pindexPrev = MkTip(Some(0), Some(0), Some(0))
    /\ chainparams = MkParams(FALSE, 0, FALSE, FALSE, 0, <<>>, "inactive", "sapling")
    /\ next_cb_mtx = FALSE
    /\ nBlockMaxSize = 0 /\ nBlockPrioritySize = 0 /\ nBlockMinSize = 0
    /\ view = {}
    /\ mi = {}
    /\ vOrphan = <<>>
    /\ mapDependers = [h \in AllTxIds |-> <<>>]
    /\ vecPriority = EmptyBag
    /\ nBlockSize = 0 /\ nBlockTx = 0 /\ nBlockSigOps = 0 /\ fSortedByFee = FALSE
    /\ sproutValue = 0 /\ saplingValue = 0 /\ orchardValue = 0
    /\ monitoring_pool_balances = TRUE
    /\ vtx = <<>> /\ vTxFees = <<>> /\ vTxSigOps = <<>> /\ nFees = 0
    /\ coinbase = NoCoinbase
    /\ minerAddress = "none"
    /\ exception = "none"
    /\ validity = "untested"
    /\ nCtxFree = 0
    /\ hashChainHistoryRoot = NullHash /\ hashAuthDataRoot = NullHash
    /\ hashBlockCommitments = NullHash
    /\ hashMerkleRoot = NullHash
    /\ lastGate = NoGate

InitNonce ==
    /\ AssemblerIdle
    /\ MinerIdle
    /\ TimeIdle
    /\ ExtraNonceIdle
    /\ LockIdle
    /\ noncePc = "create"
    /\ randHash = Uint256Zero
    /\ pblockNonce = Uint256Zero
    /\ nSolverRuns = 0

NextNonce ==
    \/ NonceCreate
    \/ NonceSolve
    \/ NonceChecks

SpecNonce == InitNonce /\ [][NextNonce]_vars

(***************************************************************************)
(* C28: whatever GetRandHash returns, the nonce stored in a new template   *)
(* has its bits 0..15 and 240..255 clear, and its bits 16..239 are the     *)
(* bits 0..223 of the random value.                                         *)
(***************************************************************************)
\* bit k of a 256-bit value, k in 0..255
Bit(a, k) == (a[(k \div 16) + 1] \div (2 ^ (k % 16))) % 2

\* a template was created and no solver has run on it
NonceFresh == noncePc = "search" /\ nSolverRuns = 0

C28_NonceBits ==
    NonceFresh =>
        /\ \A k \in 0..15 : Bit(pblockNonce, k) = 0
        /\ \A k \in 240..255 : Bit(pblockNonce, k) = 0
        /\ \A k \in 16..239 : Bit(pblockNonce, k) = Bit(randHash, k - 16)

\* a fresh template whose random value had every bit set: the bits dropped
\* at both ends were set, the ones kept are set
C28_Witness ==
    /\ NonceFresh
    /\ \A k \in 0..255 : Bit(randHash, k) = 1
    /\ Bit(pblockNonce, 16) = 1 /\ Bit(pblockNonce, 239) = 1

(***************************************************************************)
(* C26: while mining on one template the driver adds exactly 1 to the      *)
(* nonce between two solver runs and abandons the template once the low    *)
(* 16 bits of the nonce are 0xffff; so the bits 16 and above of the nonce  *)
(* stay as the template was created with, and the solver runs on at most   *)
(* 65536 nonces, all different.                                             *)
(***************************************************************************)
\* the step from one solver run to the next on the same template
NextNonceStep == noncePc = "checks" /\ noncePc' = "search"

C26_NonceStep ==
    [][/\ NextNonceStep =>
            /\ pblockNonce'[1] = pblockNonce[1] + 1
            /\ \A i \in 2..16 : pblockNonce'[i] = pblockNonce[i]
       /\ (noncePc = "checks" /\ pblockNonce[1] = 65535) => ~NextNonceStep]_vars

C26_NonceRange ==
    noncePc \in {"search", "checks"} =>
        /\ \A i \in 2..16 : pblockNonce[i] = RandomisedNonce(randHash)[i]
        /\ nSolverRuns <= 65536
        /\ noncePc = "checks" => pblockNonce[1] = nSolverRuns - 1
        /\ noncePc = "search" => pblockNonce[1] = nSolverRuns

C26_NonceSearch == []C26_NonceRange /\ C26_NonceStep

\* the last nonce of a template has been tried: 65536 runs
C26_Witness ==
    /\ noncePc = "checks"
    /\ nSolverRuns = 65536
    /\ pblockNonce[1] = 65535
    /\ pblockNonce[2] # 0

(***************************************************************************)
(* Time: GetTime (util/time.cpp), UpdateTime (lines 105-119) and the       *)
(* staleness check of the mining thread (lines 961, 994, 1110).            *)
(***************************************************************************)
MaxTicks == 3
MaxUpdates == 1

MAX_FUTURE_BLOCK_TIME_MTP == 5400

\* util/time.cpp, lines 21-26
GetTime == IF nMockTime # 0 THEN nMockTime ELSE clock

\* the conversion of the int64_t to the uint32_t of the header
NarrowToUInt32(t) ==
    LET v == ToUInt32(t) IN (v.hi % 65536) * 65536 + v.lo

\* GetNextWorkRequired(pindexPrev, pblock, params): a function of the tip
\* and of the header time
GetNextWorkRequired(mtp, nTime) == <<"work", mtp, nTime>>

\* arith_uint256().SetCompact(nBits): the target the compact form encodes
SetCompact(nBits) == <<"target", nBits>>

\* the variant that keeps the target whatever the network
TargetAfterUpdateKept(target, nBits, params) == target

\* lines 1119-1122: the target after UpdateTime in the search loop
TargetAfterUpdate(target, nBits, params) ==
    IF params.fMinDifficulty THEN SetCompact(nBits) ELSE target

\* lines 1024-1033, validBlock: the solution's hash is above the target or
\* not; ProcessBlockFound is called only when it is not
CheckSolution(target, fAbove) ==
    [fChecked |-> TRUE, hashTarget |-> target, fAbove |-> fAbove, fSubmitted |-> ~fAbove]

\* the variant without the second after the median time
UpdateTimeNoStep(mtp, now, bits, params) ==
    LET nTime == IF params.fFutureTimestampSoftFork
                 THEN Min(Max(mtp, now), mtp + MAX_FUTURE_BLOCK_TIME_MTP)
                 ELSE Max(mtp, now)
    IN  [nTime |-> NarrowToUInt32(nTime),
         nBits |-> IF params.fMinDifficulty
                   THEN GetNextWorkRequired(mtp, NarrowToUInt32(nTime))
                   ELSE bits]

\* UpdateTime, lines 105-119: the header time and bits it leaves
UpdateTime(mtp, now, bits, params) ==
    LET nTime == IF params.fFutureTimestampSoftFork
                 THEN Min(Max(mtp + 1, now), mtp + MAX_FUTURE_BLOCK_TIME_MTP)
                 ELSE Max(mtp + 1, now)
    IN  [nTime |-> NarrowToUInt32(nTime),
         nBits |-> IF params.fMinDifficulty
                   THEN GetNextWorkRequired(mtp, NarrowToUInt32(nTime))
                   ELSE bits]

\* the variant that takes either of the two for staleness
IsStaleEither(updated, last, now, start) == updated # last \/ now - start > 60

\* line 1110
IsStale(updated, last, now, start) == updated # last /\ now - start > 60

timeConfig == <<extraNonceVars, nMockTime, medianTimePast, timeParams>>

\* line 961: the thread copies the mempool's update counter
TimeReadCounter ==
    /\ timePc = "loop_top"
    /\ nTransactionsUpdatedLast' = nTransactionsUpdated
    /\ timePc' = "create"
    /\ UNCHANGED <<mainVars, lockVars, nonceVars, timeConfig, clock, nTicks, pblockTime, pblockBits,
                   hashTarget, lastCheck, nStart, nTransactionsUpdated, lastBreak>>

\* lines 411 and 766-767: CreateNewBlock sets the header time and bits
TimeCreateNewBlock ==
    /\ timePc = "create"
    /\ LET r == UpdateTime(medianTimePast, GetTime, <<>>, timeParams)
       IN  /\ pblockTime' = r.nTime
           /\ pblockBits' = GetNextWorkRequired(medianTimePast, r.nTime)
    /\ timePc' = "created"
    /\ UNCHANGED <<mainVars, lockVars, nonceVars, timeConfig, clock, nTicks, nStart,
                   hashTarget, lastCheck,
                   nTransactionsUpdated, nTransactionsUpdatedLast, lastBreak>>

\* lines 994-995: the search starts
TimeStartSearch ==
    /\ timePc = "created"
    /\ nStart' = GetTime
    /\ hashTarget' = SetCompact(pblockBits)
    /\ lastBreak' = "none"
    /\ timePc' = "search"
    /\ UNCHANGED <<mainVars, lockVars, nonceVars, timeConfig, clock, nTicks, pblockTime, pblockBits,
                   lastCheck, nTransactionsUpdated, nTransactionsUpdatedLast>>

\* lines 1003-1100: a solver run; it finds no solution, or validBlock tests
\* the last one it found against the target
TimeSolve ==
    /\ timePc = "search"
    /\ \/ lastCheck' = NoCheck
       \/ \E fAbove \in BOOLEAN : lastCheck' = CheckSolution(hashTarget, fAbove)
    /\ timePc' = "checks"
    /\ UNCHANGED <<mainVars, lockVars, nonceVars, timeConfig, clock, nTicks, pblockTime, pblockBits,
                   hashTarget, nStart, nTransactionsUpdated, nTransactionsUpdatedLast, lastBreak>>

\* lines 1103-1122: the checks in their order; fPeersOrNonce and fTip stand
\* for the checks that do not read the clock
TimeChecks ==
    /\ timePc = "checks"
    /\ \E fPeersOrNonce, fTip \in BOOLEAN :
         IF fPeersOrNonce
         THEN /\ lastBreak' = "peers_or_nonce"
              /\ timePc' = "loop_top"
              /\ UNCHANGED <<pblockTime, pblockBits, hashTarget>>
         ELSE IF IsStale(nTransactionsUpdated, nTransactionsUpdatedLast, GetTime, nStart)
         THEN /\ lastBreak' = "stale"
              /\ timePc' = "loop_top"
              /\ UNCHANGED <<pblockTime, pblockBits, hashTarget>>
         ELSE IF fTip
         THEN /\ lastBreak' = "tip"
              /\ timePc' = "loop_top"
              /\ UNCHANGED <<pblockTime, pblockBits, hashTarget>>
         ELSE LET r == UpdateTime(medianTimePast, GetTime, pblockBits, timeParams)
              IN  /\ pblockTime' = r.nTime
                  /\ pblockBits' = r.nBits
                  /\ hashTarget' = TargetAfterUpdate(hashTarget, r.nBits, timeParams)
                  /\ lastBreak' = "none"
                  /\ timePc' = "search"
    /\ UNCHANGED <<mainVars, lockVars, nonceVars, timeConfig, clock, nTicks, nStart, lastCheck,
                   nTransactionsUpdated, nTransactionsUpdatedLast>>

\* the clock advances by a second or by a minute
ClockTick ==
    /\ timePc # "idle"
    /\ nTicks < MaxTicks
    /\ \E d \in {1, 60} : clock' = clock + d
    /\ nTicks' = nTicks + 1
    /\ UNCHANGED <<mainVars, lockVars, nonceVars, timeConfig, timePc, pblockTime, pblockBits,
                   hashTarget, lastCheck,
                   nStart, nTransactionsUpdated, nTransactionsUpdatedLast, lastBreak>>

\* a transaction enters or leaves the mempool
MempoolUpdate ==
    /\ timePc # "idle"
    /\ nTransactionsUpdated < MaxUpdates
    /\ nTransactionsUpdated' = nTransactionsUpdated + 1
    /\ UNCHANGED <<mainVars, lockVars, nonceVars, timeConfig, timePc, clock, nTicks, pblockTime,
                   pblockBits, hashTarget, lastCheck, nStart, nTransactionsUpdatedLast, lastBreak>>

\* the clock starts at 10000; the median time past is far behind it, just
\* behind it, equal to it, or ahead of it; the mock time is unset, the 11
\* of the unit tests, or ahead of the clock
InitTime ==
    /\ AssemblerIdle
    /\ MinerIdle
    /\ NonceIdle
    /\ ExtraNonceIdle
    /\ LockIdle
    /\ timePc = "loop_top"
    /\ nMockTime \in {0, 11, 20000}
    /\ clock = 10000
    /\ nTicks = 0
    /\ medianTimePast \in {1000, 9990, 10000, 10100}
    /\ timeParams \in [fFutureTimestampSoftFork : BOOLEAN, fMinDifficulty : BOOLEAN]
    /\ pblockTime = 0
    /\ pblockBits = <<>>
    /\ hashTarget = <<>>
    /\ lastCheck = NoCheck
    /\ nStart = 0
    /\ nTransactionsUpdated = 0
    /\ nTransactionsUpdatedLast = 0
    /\ lastBreak = "none"

NextTime ==
    \/ TimeReadCounter
    \/ TimeCreateNewBlock
    \/ TimeStartSearch
    \/ TimeSolve
    \/ TimeChecks
    \/ ClockTick
    \/ MempoolUpdate

SpecTime == InitTime /\ [][NextTime]_vars

(***************************************************************************)
(* C27: the thread abandons a template for staleness only in a check that  *)
(* finds both the mempool's update counter different from the value read   *)
(* before the template was created and more than 60 seconds gone since     *)
(* the search started; with an unchanged counter, or with 60 seconds or    *)
(* less gone, the staleness check never ends the search.                   *)
(***************************************************************************)
\* the step in which the staleness check ends the search
StaleBreak == timePc = "checks" /\ timePc' = "loop_top" /\ lastBreak' = "stale"

C27_Staleness ==
    [][StaleBreak =>
          /\ nTransactionsUpdated # nTransactionsUpdatedLast
          /\ GetTime - nStart > 60]_vars

\* a search ended for staleness, 61 seconds after it started
C27_Witness ==
    /\ lastBreak = "stale"
    /\ timePc = "loop_top"
    /\ GetTime - nStart = 61

(***************************************************************************)
(* C29: UpdateTime leaves the header time at the larger of the median time *)
(* past plus 1 and the current time, not above the median time past plus   *)
(* MAX_FUTURE_BLOCK_TIME_MTP when the future-timestamp soft fork is active *)
(* at the next height, so the header time is above the median time past;   *)
(* nBits is recomputed when the min-difficulty parameter is set and is     *)
(* left as it was otherwise.                                                *)
(***************************************************************************)
\* the step of the mining thread that calls UpdateTime
UpdateTimeStep == timePc = "checks" /\ timePc' = "search"

\* the header time the claim gives
ClaimedTime ==
    IF GetTime <= medianTimePast THEN medianTimePast + 1
    ELSE IF timeParams.fFutureTimestampSoftFork
            /\ GetTime > medianTimePast + MAX_FUTURE_BLOCK_TIME_MTP
    THEN medianTimePast + MAX_FUTURE_BLOCK_TIME_MTP
    ELSE GetTime

\* the step of CreateNewBlock that calls it
UpdateTimeOnCreation == timePc = "create" /\ timePc' = "created"

C29_UpdateTime ==
    [][/\ UpdateTimeStep =>
            /\ pblockTime' = ClaimedTime
            /\ pblockTime' > medianTimePast
            /\ timeParams.fMinDifficulty
                  => pblockBits' = GetNextWorkRequired(medianTimePast, pblockTime')
            /\ ~timeParams.fMinDifficulty => pblockBits' = pblockBits
       /\ UpdateTimeOnCreation =>
            /\ pblockTime' = ClaimedTime
            /\ pblockTime' > medianTimePast]_vars

\* UpdateTime has moved the header time on with the clock and recomputed
\* the bits for it
C29_Witness ==
    /\ timePc = "search"
    /\ lastBreak = "none"
    /\ timeParams.fMinDifficulty
    /\ pblockTime = clock /\ clock > 10000
    /\ pblockBits = GetNextWorkRequired(medianTimePast, pblockTime)

(***************************************************************************)
(* The callers of IncrementExtraNonce, lines 849-866.  GenerateBitcoins    *)
(* starts nThreads mining threads (1163-1166); each has its own            *)
(* nExtraNonce (910-911) and all of them use the one static hashPrevBlock  *)
(* of the function, which no lock guards.                                   *)
(***************************************************************************)
MaxPrevHashes == 2
MaxCalls == 2

\* two mining threads
Threads == {1, 2}

\* another caller is between its comparison and its assignment of the
\* static, so that a read of the static races with the write
RacesWithWrite(t) == \E o \in Threads \ {t} : xnPc[o] = "compared" /\ xnDiffers[o]

\* the chain tip changes
PrevBlockChange ==
    /\ prevHash < MaxPrevHashes
    /\ prevHash' = prevHash + 1
    /\ UNCHANGED <<mainVars, lockVars, nonceVars, timeVars, xnPc, xnDiffers, nExtraNonceOf,
                   hashPrevBlockShared, templatePrevOf, nCallsSince>>

\* line 974: caller t gets a template on the tip; its hashPrevBlock changes
XnNewTemplate(t) ==
    /\ xnPc[t] = "idle"
    /\ templatePrevOf[t] # prevHash
    /\ templatePrevOf' = [templatePrevOf EXCEPT ![t] = prevHash]
    /\ nCallsSince' = [nCallsSince EXCEPT ![t] = 0]
    /\ UNCHANGED <<mainVars, lockVars, nonceVars, timeVars, xnPc, xnDiffers, nExtraNonceOf,
                   hashPrevBlockShared, prevHash>>

\* line 857: the comparison of the static with the template's
\* hashPrevBlock; a read that races with a write gives either answer
XnCompare(t) ==
    /\ xnPc[t] = "idle"
    /\ templatePrevOf[t] # 0
    /\ nCallsSince[t] < MaxCalls
    /\ \E f \in BOOLEAN :
         /\ RacesWithWrite(t) \/ f = (hashPrevBlockShared # templatePrevOf[t])
         /\ xnDiffers' = [xnDiffers EXCEPT ![t] = f]
    /\ xnPc' = [xnPc EXCEPT ![t] = "compared"]
    /\ UNCHANGED <<mainVars, lockVars, nonceVars, timeVars, nExtraNonceOf, hashPrevBlockShared,
                   templatePrevOf, prevHash, nCallsSince>>

\* lines 858-862: the reset, the assignment of the static, the increment
XnUpdate(t) ==
    /\ xnPc[t] = "compared"
    /\ nExtraNonceOf' =
         [nExtraNonceOf EXCEPT ![t] = (IF xnDiffers[t] THEN 0 ELSE @) + 1]
    /\ hashPrevBlockShared' =
         IF xnDiffers[t] THEN templatePrevOf[t] ELSE hashPrevBlockShared
    /\ nCallsSince' = [nCallsSince EXCEPT ![t] = @ + 1]
    /\ xnPc' = [xnPc EXCEPT ![t] = "idle"]
    /\ UNCHANGED <<mainVars, lockVars, nonceVars, timeVars, xnDiffers, templatePrevOf, prevHash>>

InitExtraNonce ==
    /\ AssemblerIdle
    /\ MinerIdle
    /\ NonceIdle
    /\ TimeIdle
    /\ LockIdle
    /\ xnPc = [t \in Threads |-> "idle"]
    /\ xnDiffers = [t \in Threads |-> FALSE]
    /\ nExtraNonceOf = [t \in Threads |-> 0]
    /\ hashPrevBlockShared = 0
    /\ templatePrevOf = [t \in Threads |-> 0]
    /\ prevHash = 1
    /\ nCallsSince = [t \in Threads |-> 0]

NextExtraNonce ==
    \/ PrevBlockChange
    \/ \E t \in Threads : XnNewTemplate(t)
    \/ \E t \in Threads : XnCompare(t)
    \/ \E t \in Threads : XnUpdate(t)

SpecExtraNonce == InitExtraNonce /\ [][NextExtraNonce]_vars

(***************************************************************************)
(* C30: a call of IncrementExtraNonce leaves the caller's extra-nonce at 1 *)
(* when the template's hashPrevBlock differs from the one the call before  *)
(* saw and at the value before plus 1 otherwise, so that after every call  *)
(* the caller's extra-nonce is the number of its calls since its           *)
(* previous-block hash last changed.                                        *)
(***************************************************************************)
C30_CountsCalls ==
    \A t \in Threads :
        (xnPc[t] = "idle" /\ nCallsSince[t] > 0) => nExtraNonceOf[t] = nCallsSince[t]

\* with one caller alone the count holds
SingleCallerCounts ==
    \A t \in Threads :
        (xnPc[t] = "idle" /\ nCallsSince[t] > 0
         /\ \A o \in Threads \ {t} : templatePrevOf[o] = 0)
            => nExtraNonceOf[t] = nCallsSince[t]

(***************************************************************************)
(* The cancellation flag and its mutex (lines 923-930, 1033-1053,          *)
(* 1096-1100).  Every mining thread has its own m_cs and cancelSolver; the *)
(* tip listener of each runs on whichever thread reports the new tip: a    *)
(* thread of the node (0 here) or a mining thread inside ProcessNewBlock.  *)
(* A lock_guard is three steps: the acquisition, the access, the release.  *)
(* The default solver is modelled, the one that calls the cancel check.    *)
(***************************************************************************)
\* the threads that take locks: the mining threads and the one that reports tips
LockThreads == Threads \cup {0}

\* the mutex is free
Free(holders) == holders = {}

\* variant of Acquire that takes nothing
AcquireNothing(holders, w) == holders

\* the constructor of lock_guard and of LOCK: the thread becomes the holder
Acquire(holders, w) == holders \cup {w}

\* the destructor of lock_guard and of LOCK
Release(holders, w) == holders \ {w}

lockFrame == <<mainVars, nonceVars, timeVars, extraNonceVars>>

\* lines 946-949: the peers poll takes cs_vNodes (chains that require peers)
PeersLock(t) ==
    /\ lockPc[t] = "loop_top"
    /\ Free(csHeld.cs_vNodes)
    /\ csHeld' = [csHeld EXCEPT !.cs_vNodes = Acquire(@, t)]
    /\ lockPc' = [lockPc EXCEPT ![t] = "peers"]
    /\ UNCHANGED <<lockFrame, m_cs, cancelSolverOf, listenerOf>>

\* line 950: the end of the block releases cs_vNodes
PeersUnlock(t) ==
    /\ lockPc[t] = "peers"
    /\ csHeld' = [csHeld EXCEPT !.cs_vNodes = Release(@, t)]
    /\ lockPc' = [lockPc EXCEPT ![t] = "read_tip"]
    /\ UNCHANGED <<lockFrame, m_cs, cancelSolverOf, listenerOf>>

\* line 941: a chain that does not require peers goes on to the tip
PeersSkip(t) ==
    /\ lockPc[t] = "loop_top"
    /\ lockPc' = [lockPc EXCEPT ![t] = "read_tip"]
    /\ UNCHANGED <<lockFrame, m_cs, csHeld, cancelSolverOf, listenerOf>>

\* lines 963-965: the tip is read under cs_main
TipLock(t) ==
    /\ lockPc[t] = "read_tip"
    /\ Free(csHeld.cs_main)
    /\ csHeld' = [csHeld EXCEPT !.cs_main = Acquire(@, t)]
    /\ lockPc' = [lockPc EXCEPT ![t] = "tip"]
    /\ UNCHANGED <<lockFrame, m_cs, cancelSolverOf, listenerOf>>

\* line 966, and the template and the solver state that follow
TipUnlock(t) ==
    /\ lockPc[t] = "tip"
    /\ csHeld' = [csHeld EXCEPT !.cs_main = Release(@, t)]
    /\ lockPc' = [lockPc EXCEPT ![t] = "solve"]
    /\ UNCHANGED <<lockFrame, m_cs, cancelSolverOf, listenerOf>>

\* line 1051: the cancel check the solver calls takes m_cs
CancelledLock(t) ==
    /\ lockPc[t] = "solve"
    /\ Free(m_cs[t])
    /\ m_cs' = [m_cs EXCEPT ![t] = Acquire(@, t)]
    /\ lockPc' = [lockPc EXCEPT ![t] = "cancelled_locked"]
    /\ UNCHANGED <<lockFrame, csHeld, cancelSolverOf, listenerOf>>

\* line 1052: it reads the flag
CancelledRead(t) ==
    /\ lockPc[t] = "cancelled_locked"
    /\ lockPc' = [lockPc EXCEPT ![t] =
                    IF cancelSolverOf[t] THEN "cancelled_true" ELSE "cancelled_false"]
    /\ UNCHANGED <<lockFrame, m_cs, csHeld, cancelSolverOf, listenerOf>>

\* line 1053: the return releases m_cs; a set flag makes the solver throw
\* EhSolverCancelledException
CancelledUnlock(t) ==
    /\ lockPc[t] \in {"cancelled_true", "cancelled_false"}
    /\ m_cs' = [m_cs EXCEPT ![t] = Release(@, t)]
    /\ lockPc' = [lockPc EXCEPT ![t] =
                    IF lockPc[t] = "cancelled_true" THEN "catch" ELSE "solve"]
    /\ UNCHANGED <<lockFrame, csHeld, cancelSolverOf, listenerOf>>

\* lines 1096-1098: the handler logs, then takes m_cs
CatchLock(t) ==
    /\ lockPc[t] = "catch"
    /\ Free(m_cs[t])
    /\ m_cs' = [m_cs EXCEPT ![t] = Acquire(@, t)]
    /\ lockPc' = [lockPc EXCEPT ![t] = "catch_locked"]
    /\ UNCHANGED <<lockFrame, csHeld, cancelSolverOf, listenerOf>>

\* line 1099
CatchClear(t) ==
    /\ lockPc[t] = "catch_locked"
    /\ cancelSolverOf' = [cancelSolverOf EXCEPT ![t] = FALSE]
    /\ lockPc' = [lockPc EXCEPT ![t] = "catch_cleared"]
    /\ UNCHANGED <<lockFrame, m_cs, csHeld, listenerOf>>

\* line 1100: the end of the handler releases m_cs
CatchUnlock(t) ==
    /\ lockPc[t] = "catch_cleared"
    /\ m_cs' = [m_cs EXCEPT ![t] = Release(@, t)]
    /\ lockPc' = [lockPc EXCEPT ![t] = "checks"]
    /\ UNCHANGED <<lockFrame, csHeld, cancelSolverOf, listenerOf>>

\* lines 1090-1091: the solver run ends without a solution
SolverReturns(t) ==
    /\ lockPc[t] = "solve"
    /\ lockPc' = [lockPc EXCEPT ![t] = "checks"]
    /\ UNCHANGED <<lockFrame, m_cs, csHeld, cancelSolverOf, listenerOf>>

\* lines 1103-1115: a check breaks to the outer loop, or the next nonce is tried
LockChecks(t) ==
    /\ lockPc[t] = "checks"
    /\ \E fBreak \in BOOLEAN :
         lockPc' = [lockPc EXCEPT ![t] = IF fBreak THEN "loop_top" ELSE "solve"]
    /\ UNCHANGED <<lockFrame, m_cs, csHeld, cancelSolverOf, listenerOf>>

\* lines 1020-1032: validBlock is given a solution that meets the target
SolutionFound(t) ==
    /\ lockPc[t] = "solve"
    /\ lockPc' = [lockPc EXCEPT ![t] = "found"]
    /\ UNCHANGED <<lockFrame, m_cs, csHeld, cancelSolverOf, listenerOf>>

\* lines 885-886: ProcessBlockFound takes cs_main for the stale check
StaleLock(t) ==
    /\ lockPc[t] = "found"
    /\ Free(csHeld.cs_main)
    /\ csHeld' = [csHeld EXCEPT !.cs_main = Acquire(@, t)]
    /\ lockPc' = [lockPc EXCEPT ![t] = "stale_check"]
    /\ UNCHANGED <<lockFrame, m_cs, cancelSolverOf, listenerOf>>

\* lines 887-889: cs_main is released; a stale block is not processed, and
\* validBlock returns true without touching the flag (1033-1048)
StaleUnlock(t) ==
    /\ lockPc[t] = "stale_check"
    /\ csHeld' = [csHeld EXCEPT !.cs_main = Release(@, t)]
    /\ \E fStale \in BOOLEAN :
         lockPc' = [lockPc EXCEPT ![t] = IF fStale THEN "loop_top" ELSE "process"]
    /\ UNCHANGED <<lockFrame, m_cs, cancelSolverOf, listenerOf>>

\* lines 896-897: ProcessNewBlock does not accept the block
BlockRejected(t) ==
    /\ lockPc[t] = "process"
    /\ lockPc' = [lockPc EXCEPT ![t] = "loop_top"]
    /\ UNCHANGED <<lockFrame, m_cs, csHeld, cancelSolverOf, listenerOf>>

\* uiInterface.NotifyBlockTip fires on thread w, which may hold cs_main: on a
\* thread of the node, or on a mining thread whose block ProcessNewBlock
\* accepts (line 896)
NotifyBegin(w) ==
    /\ \/ w = 0 /\ lockPc[w] = "idle"
       \/ w \in Threads /\ lockPc[w] = "process"
    /\ \E fMain \in BOOLEAN :
         IF fMain
         THEN /\ Free(csHeld.cs_main)
              /\ csHeld' = [csHeld EXCEPT !.cs_main = Acquire(@, w)]
         ELSE UNCHANGED csHeld
    /\ listenerOf' = [listenerOf EXCEPT ![w] = 1]
    /\ lockPc' = [lockPc EXCEPT ![w] = "notify"]
    /\ UNCHANGED <<lockFrame, m_cs, cancelSolverOf>>

\* line 927: the listener of a mining thread takes that thread's m_cs
ListenerLock(w) ==
    /\ lockPc[w] = "notify"
    /\ Free(m_cs[listenerOf[w]])
    /\ m_cs' = [m_cs EXCEPT ![listenerOf[w]] = Acquire(@, w)]
    /\ lockPc' = [lockPc EXCEPT ![w] = "listener_locked"]
    /\ UNCHANGED <<lockFrame, csHeld, cancelSolverOf, listenerOf>>

\* line 928
ListenerSet(w) ==
    /\ lockPc[w] = "listener_locked"
    /\ cancelSolverOf' = [cancelSolverOf EXCEPT ![listenerOf[w]] = TRUE]
    /\ lockPc' = [lockPc EXCEPT ![w] = "listener_set"]
    /\ UNCHANGED <<lockFrame, m_cs, csHeld, listenerOf>>

\* line 929: the listener returns; the signal goes on to the next listener
ListenerUnlock(w) ==
    /\ lockPc[w] = "listener_set"
    /\ m_cs' = [m_cs EXCEPT ![listenerOf[w]] = Release(@, w)]
    /\ IF listenerOf[w] + 1 \in Threads
       THEN /\ listenerOf' = [listenerOf EXCEPT ![w] = @ + 1]
            /\ lockPc' = [lockPc EXCEPT ![w] = "notify"]
       ELSE /\ listenerOf' = [listenerOf EXCEPT ![w] = 0]
            /\ lockPc' = [lockPc EXCEPT ![w] = "notified"]
    /\ UNCHANGED <<lockFrame, csHeld, cancelSolverOf>>

\* the signal returns, the thread releases cs_main if it held it; a mining
\* thread is back in validBlock with its block accepted (line 1033)
NotifyEnd(w) ==
    /\ lockPc[w] = "notified"
    /\ csHeld' = [csHeld EXCEPT !.cs_main = Release(@, w)]
    /\ lockPc' = [lockPc EXCEPT ![w] = IF w = 0 THEN "idle" ELSE "accepted"]
    /\ UNCHANGED <<lockFrame, m_cs, cancelSolverOf, listenerOf>>

\* lines 1033-1035: ProcessBlockFound returned true, validBlock takes m_cs
OwnLock(t) ==
    /\ lockPc[t] = "accepted"
    /\ Free(m_cs[t])
    /\ m_cs' = [m_cs EXCEPT ![t] = Acquire(@, t)]
    /\ lockPc' = [lockPc EXCEPT ![t] = "own_locked"]
    /\ UNCHANGED <<lockFrame, csHeld, cancelSolverOf, listenerOf>>

\* line 1036
OwnClear(t) ==
    /\ lockPc[t] = "own_locked"
    /\ cancelSolverOf' = [cancelSolverOf EXCEPT ![t] = FALSE]
    /\ lockPc' = [lockPc EXCEPT ![t] = "own_cleared"]
    /\ UNCHANGED <<lockFrame, m_cs, csHeld, listenerOf>>

\* line 1037: the end of the block releases m_cs; validBlock returns true
\* and the search breaks to the outer loop (1048, 1092-1093)
OwnUnlock(t) ==
    /\ lockPc[t] = "own_cleared"
    /\ m_cs' = [m_cs EXCEPT ![t] = Release(@, t)]
    /\ lockPc' = [lockPc EXCEPT ![t] = "loop_top"]
    /\ UNCHANGED <<lockFrame, csHeld, cancelSolverOf, listenerOf>>

\* lines 923-924: every thread starts with its mutex free and its flag clear
InitLock ==
    /\ AssemblerIdle
    /\ MinerIdle
    /\ NonceIdle
    /\ TimeIdle
    /\ ExtraNonceIdle
    /\ lockPc = [w \in LockThreads |-> IF w = 0 THEN "idle" ELSE "loop_top"]
    /\ m_cs = [t \in Threads |-> {}]
    /\ csHeld = [cs_main |-> {}, cs_vNodes |-> {}]
    /\ cancelSolverOf = [t \in Threads |-> FALSE]
    /\ listenerOf = [w \in LockThreads |-> 0]

NextLock ==
    \/ \E t \in Threads : PeersLock(t)
    \/ \E t \in Threads : PeersUnlock(t)
    \/ \E t \in Threads : PeersSkip(t)
    \/ \E t \in Threads : TipLock(t)
    \/ \E t \in Threads : TipUnlock(t)
    \/ \E t \in Threads : CancelledLock(t)
    \/ \E t \in Threads : CancelledRead(t)
    \/ \E t \in Threads : CancelledUnlock(t)
    \/ \E t \in Threads : CatchLock(t)
    \/ \E t \in Threads : CatchClear(t)
    \/ \E t \in Threads : CatchUnlock(t)
    \/ \E t \in Threads : SolverReturns(t)
    \/ \E t \in Threads : LockChecks(t)
    \/ \E t \in Threads : SolutionFound(t)
    \/ \E t \in Threads : StaleLock(t)
    \/ \E t \in Threads : StaleUnlock(t)
    \/ \E t \in Threads : BlockRejected(t)
    \/ \E w \in LockThreads : NotifyBegin(w)
    \/ \E w \in LockThreads : ListenerLock(w)
    \/ \E w \in LockThreads : ListenerSet(w)
    \/ \E w \in LockThreads : ListenerUnlock(w)
    \/ \E w \in LockThreads : NotifyEnd(w)
    \/ \E t \in Threads : OwnLock(t)
    \/ \E t \in Threads : OwnClear(t)
    \/ \E t \in Threads : OwnUnlock(t)

SpecLock == InitLock /\ [][NextLock]_vars

\* thread w is at an access to the cancellation flag of mining thread k:
\* the listener's write, the cancel check's read, the two clears
AtAccess(w, k) ==
    \/ lockPc[w] = "listener_locked" /\ listenerOf[w] = k
    \/ w = k /\ lockPc[w] \in {"cancelled_locked", "catch_locked", "own_locked"}

\* the m_cs mutexes thread w holds
MutexesOf(w) == {k \in Threads : w \in m_cs[k]}

\* what thread w holds of cs_main and cs_vNodes
OthersOf(w) == {l \in DOMAIN csHeld : w \in csHeld[l]}

\* every access happens with the accessing thread the one holder of the
\* mutex of the flag's thread
AccessUnderMutex ==
    \A w \in LockThreads : \A k \in Threads : AtAccess(w, k) => m_cs[k] = {w}

\* a thread that holds an m_cs acquires nothing
NoLockUnderMutex ==
    \A w \in LockThreads :
        MutexesOf(w) # {} =>
            /\ MutexesOf(w)' \subseteq MutexesOf(w)
            /\ OthersOf(w)' \subseteq OthersOf(w)

(***************************************************************************)
(* C24: every access to a mining thread's cancellation flag (the tip       *)
(* listener's write, the cancel check's read, the clear after a cancelled  *)
(* solver run, the clear after the thread's own block is accepted) happens *)
(* while the accessing thread holds that mining thread's m_cs, and a       *)
(* thread acquires no lock while it holds an m_cs.                         *)
(***************************************************************************)
C24_LockDiscipline == []AccessUnderMutex /\ [][NoLockUnderMutex]_vars

\* thread 1 clears its flag after a cancelled run, under its m_cs, while the
\* reporting thread, holding cs_main, waits at thread 1's listener, and
\* thread 2's flag was set under thread 2's m_cs
C24_Witness ==
    /\ lockPc[1] = "catch_locked"
    /\ m_cs[1] = {1}
    /\ lockPc[0] = "notify"
    /\ listenerOf[0] = 1
    /\ 0 \in csHeld.cs_main
    /\ cancelSolverOf[2]

\* NU5 is active at the height of the block the template is for
TemplateNU5 == ParamsAtHeight(chainparams, TemplateHeight).fNU5

\* the step of the thread that calls IncrementExtraNonce
IncrementStep == minerPc = "increment" /\ minerPc' # "increment"

\* after IncrementExtraNonce the roots are those of the transactions the
\* template holds now
RootsCurrent ==
    TemplateInSearch =>
       /\ hashMerkleRoot = <<"merkle", coinbase, Tail(vtx)>>
       /\ TemplateNU5 =>
            /\ hashAuthDataRoot = <<"auth", coinbase, Tail(vtx)>>
            /\ hashBlockCommitments =
                 <<"commitments", hashChainHistoryRoot, hashAuthDataRoot>>

\* what a call of IncrementExtraNonce leaves as it is
RootsKept ==
    IncrementStep =>
       /\ hashChainHistoryRoot' = hashChainHistoryRoot
       /\ ~TemplateNU5 => /\ hashAuthDataRoot' = hashAuthDataRoot
                          /\ hashBlockCommitments' = hashBlockCommitments

(***************************************************************************)
(* C31: after every IncrementExtraNonce hashMerkleRoot is the Merkle root  *)
(* of the template's transactions with the rewritten coinbase; with NU5    *)
(* active the auth-data root and hashBlockCommitments are recomputed from  *)
(* those transactions and the cached chain-history root, without NU5 they  *)
(* are left as they were; the chain-history root is never modified.        *)
(***************************************************************************)
C31_Roots == []RootsCurrent /\ [][RootsKept]_vars

\* the same for a template built on the tip the thread read
C31_RootsOnReadTip ==
    [](minerPindexPrev.hash = hashPrevBlock => RootsCurrent) /\ [][RootsKept]_vars

\* an iteration of the selection loop: it pops a tuple
PopStep == pc = "collect" /\ vecPriority # EmptyBag

\* the tuples of the queue that hold the transaction the step popped
Popped == {e \in BagToSet(vecPriority) : e.ptx = lastGate'.tx}

\* line 516: the comparator the loop starts with
ComparatorInitial ==
    (pc = "scan" /\ pc' = "collect") => (fSortedByFee' = ~(nBlockPrioritySize > 0))

\* lines 594-602: the comparator changes from priority to fee only
ComparatorOneWay == (pc = "collect" /\ fSortedByFee) => fSortedByFee'

\* under the fee comparator a pop returns a tuple no tuple of the queue,
\* promoted orphans included, exceeds in fee rate
PopsFeeMaximum ==
    (PopStep /\ fSortedByFee) =>
        \E e \in Popped : \A o \in BagToSet(vecPriority) : o.feeRate <= e.feeRate

(***************************************************************************)
(* C32: within one assembly the comparator is ByPriority at first when the *)
(* priority size is positive and ByFee otherwise; it changes at most once, *)
(* from ByPriority to ByFee; after the change every pop returns a tuple of *)
(* maximal fee rate among those in the queue, the orphans promoted after   *)
(* the change included.                                                    *)
(***************************************************************************)
C32_Comparator == [][ComparatorInitial /\ ComparatorOneWay /\ PopsFeeMaximum]_vars

\* the queue started by priority and the comparator changed; a transaction
\* whose parent itself waited for a parent, hence promoted into the queue
\* after the change, was popped and accepted
C32_Witness ==
    /\ pc = "collect"
    /\ nBlockPrioritySize > 0
    /\ fSortedByFee
    /\ lastGate.gate = "accept"
    /\ \E i \in 1..Len(Tx(lastGate.tx).vin) :
           /\ Tx(lastGate.tx).vin[i][1] \in mempool
           /\ \E j \in 1..Len(Tx(Tx(lastGate.tx).vin[i][1]).vin) :
                  Tx(Tx(lastGate.tx).vin[i][1]).vin[j][1] \in mempool

\* lines 594-602 are reached with the priority comparator and change it
SwitchStep == pc = "collect" /\ ~fSortedByFee /\ fSortedByFee'

\* the test of the free-transaction gate (576-585) on a tuple, whatever
\* the comparator
FailsFreeTest(e) ==
    /\ Tx(e.ptx).dPriorityDelta <= 0
    /\ Tx(e.ptx).nFeeDelta <= 0
    /\ e.feeRate < minRelayTxFee
    /\ e.feePaid < DEFAULT_FEE
    /\ nBlockSize + Tx(e.ptx).nTxSize >= nBlockMinSize

\* the gates after line 602
LaterGates == {"inputs", "p2sh", "contextual", "sprout", "sapling", "orchard", "accept"}

\* the claim as stated: the transaction that goes on to the later gates on
\* the iteration of the change is a fee-rate maximum of the queue it was
\* popped from and has passed the test of the free-transaction gate
C33_RePopped ==
    [][SwitchStep =>
          \E e \in Popped :
              /\ \A o \in BagToSet(vecPriority) : o.feeRate <= e.feeRate
              /\ ~FailsFreeTest(e)]_vars

(***************************************************************************)
(* C33: when the change to ByFee triggers on a popped transaction the rest *)
(* of the heap is rebuilt under the fee comparator and the transaction is  *)
(* not popped again: the transaction evaluated against the remaining gates *)
(* (inputs, P2SH sigops, contextual check, turnstile) is the one popped    *)
(* under ByPriority, a priority maximum of the queue, it leaves the queue, *)
(* and the free-transaction gate is not applied to it.                     *)
(***************************************************************************)
C33_NotRePopped ==
    [][SwitchStep =>
          /\ lastGate'.gate \in LaterGates
          /\ \E e \in Popped :
                /\ \A o \in BagToSet(vecPriority) : o.dPriority <= e.dPriority
                /\ CopiesIn(e, vecPriority') < CopiesIn(e, vecPriority)
                /\ lastGate'.gate = "accept" => vtx'[Len(vtx')] = MempoolTx(e.ptx)]_vars

\* the tenth priority transaction of the scenario changed the comparator and
\* was accepted, although it pays no fee and the fee transaction was queued
C33_Witness ==
    /\ SwitchScenario
    /\ pc = "collect"
    /\ fSortedByFee
    /\ lastGate.gate = "accept"
    /\ lastGate.tx \in SwitchPriorityTxs
    /\ vtx[Len(vtx)] = MempoolTx(lastGate.tx)
    /\ \E o \in BagToSet(vecPriority) : o.ptx = SwitchFeeTx /\ o.feeRate >= minRelayTxFee

\* the gates that reject a transaction
FailGates ==
    {"size", "sigops", "free", "inputs", "p2sh", "contextual", "sprout", "sapling", "orchard"}

\* the transactions that have a tuple in the queue
QueuedIds == {e.ptx : e \in BagToSet(vecPriority)}

\* an iteration that ends in a `continue'
FailStep == pc = "collect" /\ pc' = "collect" /\ lastGate'.gate \in FailGates

\* what a rejected transaction leaves alone
FailFrame ==
    UNCHANGED <<view, vtx, vTxFees, vTxSigOps, nBlockSize, nBlockTx, nBlockSigOps, nFees,
                sproutValue, saplingValue, orchardValue>>

\* lines 665-674: during the loop the view changes only by UpdateCoins of
\* the transaction added to the template
ViewOnlyOnAccept ==
    (pc = "collect" /\ view' # view) =>
        /\ lastGate'.gate = "accept"
        /\ vtx' = Append(vtx, MempoolTx(lastGate'.tx))
        /\ view' = UpdateCoins(lastGate'.tx, view)

\* transaction id was rejected by the iteration just finished
Rejected(id) == pc = "collect" /\ lastGate.gate \in FailGates /\ lastGate.tx = id

(***************************************************************************)
(* C34: a transaction that fails a gate (size, legacy sigops, free, input  *)
(* availability, P2SH sigops, contextual input check, turnstile) leaves    *)
(* the view, the template's transactions, fees and sigops, the size, sigop *)
(* and fee counters and the running pool balances unchanged and is never   *)
(* queued again; the view changes only for an accepted transaction.        *)
(***************************************************************************)
C34_FailedGateFrame ==
    /\ [][(FailStep => (FailFrame /\ lastGate'.tx \notin QueuedIds')) /\ ViewOnlyOnAccept]_vars
    /\ \A id \in AllTxIds : [](Rejected(id) => [](id \notin QueuedIds))

\* a transaction was rejected after another was accepted, and a transaction
\* is still queued
C34_Witness ==
    /\ pc = "collect"
    /\ lastGate.gate \in {"inputs", "sapling"}
    /\ nBlockTx > 0
    /\ view # PcoinsTip
    /\ vecPriority # EmptyBag

\* the transactions not yet queued that may still be: those the scan has
\* not visited and those of orphan records that wait for a parent
Pending ==
    mi \cup {vOrphan[a].ptx : a \in {b \in 1..Len(vOrphan) : vOrphan[b].setDependsOn # {}}}

\* no transaction has two tuples in the queue or two places in the template,
\* and none is queued while in the template
NoDuplicate ==
    pc \in {"scan", "collect"} =>
        /\ BagCardinality(vecPriority) = Cardinality(QueuedIds)
        /\ \A i, j \in 1..Len(TemplateOrder) : TemplateOrder[i] = TemplateOrder[j] => i = j
        /\ \A i \in 1..Len(TemplateOrder) : TemplateOrder[i] \notin QueuedIds

\* a transaction enters the queue from the scan or from a waiting orphan
\* record and cannot enter again; nothing becomes pending again
PushedOnce ==
    pc \in {"scan", "collect"} =>
        /\ (QueuedIds' \ QueuedIds) \subseteq (Pending \ Pending')
        /\ Pending' \subseteq Pending
        /\ QueuedIds' \cap Pending' = {}

\* after an iteration the popped transaction has no tuple left and is not
\* pending
PoppedOnce ==
    (PopStep /\ pc' = "collect") => lastGate'.tx \notin (QueuedIds' \cup Pending')

\* what the loop may still pop
Remaining == BagCardinality(vecPriority) + Cardinality(Pending)

\* every iteration takes one from what may still be popped
IterationConsumes == (pc = "collect" /\ pc' = "collect") => Remaining' = Remaining - 1

(***************************************************************************)
(* C35: every mempool transaction is pushed into the queue at most once,   *)
(* by the scan or by one promotion, also when it spends several outputs of *)
(* one parent or has several parents, and popped at most once; the         *)
(* template holds no transaction twice and the selection loop makes at     *)
(* most as many iterations as the mempool has transactions.                *)
(***************************************************************************)
C35_OncePerTransaction ==
    /\ []NoDuplicate
    /\ [](pc \in {"scan", "collect"} => Remaining + Len(TemplateOrder) <= Cardinality(mempool))
    /\ [][PushedOnce /\ PoppedOnce /\ IterationConsumes]_vars

\* the transaction that spends two outputs of its parent, registered twice
\* under it, is in the template after the parent at the end of the loop
C35_Witness ==
    /\ pc = "collect"
    /\ vecPriority = EmptyBag
    /\ mempool = TwoOutputsMempool
    /\ Len(mapDependers[1]) = 2
    /\ TemplateOrder = <<1, TwoOutputsTx>>

\* the mempool transactions whose outputs transaction id spends
InputHashes(id) == {Tx(id).vin[k][1] : k \in 1..Len(Tx(id).vin)}

(***************************************************************************)
(* C36: throughout an assembly every pointer in mapDependers refers to a   *)
(* live orphan record, that of a transaction which spends an output of the *)
(* transaction it is registered under; a transaction the scan dropped for  *)
(* an input found in neither the view nor the mempool has no entry left.   *)
(***************************************************************************)
C36_LiveOrphans ==
    pc \in {"scan", "collect"} =>
        \A h \in AllTxIds : \A i \in 1..Len(mapDependers[h]) :
            /\ mapDependers[h][i] \in 1..Len(vOrphan)
            /\ vOrphan[mapDependers[h][i]].live
            /\ h \in InputHashes(vOrphan[mapDependers[h][i]].ptx)

(***************************************************************************)
(* C37: in the mining loop the height IncrementExtraNonce wrote into the   *)
(* scriptSig of the coinbase is the height the template was assembled for, *)
(* one above the tip CreateNewBlock read, and the tip the driver compares  *)
(* with the chain tip is the previous block of the template, also when the *)
(* chain tip advanced between the driver's read and the assembly.          *)
(***************************************************************************)
C37_TemplateTip ==
    TemplateInSearch =>
        /\ coinbase.vin[1].scriptSig.nHeight = TipHeightOf(hashPrevBlock) + 1
        /\ minerPindexPrev.hash = hashPrevBlock

(***************************************************************************)
(* C38: with several mining threads, a thread's extra-nonce is 1 after the *)
(* thread's first call of IncrementExtraNonce for a template built on a    *)
(* new previous-block hash, whatever calls the other threads made.         *)
(***************************************************************************)
C38_ResetPerThread ==
    \A t \in Threads :
        (xnPc[t] = "idle" /\ nCallsSince[t] = 1) => nExtraNonceOf[t] = 1

\* a solver run, with the tests of its solutions against the target
SolverRunStep == timePc = "search" /\ timePc' = "checks"

\* the target is the one the header's bits encode
TargetCurrent == timePc \in {"search", "checks"} => hashTarget = SetCompact(pblockBits)

\* a solution is tested against the target of the header's bits and is
\* submitted only when its hash is not above it
SubmittedBelowTarget ==
    (SolverRunStep /\ lastCheck'.fChecked) =>
        /\ lastCheck'.hashTarget = SetCompact(pblockBits)
        /\ lastCheck'.fSubmitted => ~lastCheck'.fAbove

(***************************************************************************)
(* C39: at every solver run and at every test of a solution the thread's   *)
(* hashTarget is the target decoded from the header's nBits, also after    *)
(* UpdateTime changed nBits on a network that allows minimum-difficulty    *)
(* blocks; a solution is submitted only when the header's hash is not      *)
(* above that target.                                                      *)
(***************************************************************************)
C39_TargetFollowsBits == []TargetCurrent /\ [][SubmittedBelowTarget]_vars

\* on a minimum-difficulty network UpdateTime changed the bits during the
\* search and a solution found afterwards was submitted
C39_Witness ==
    /\ timePc = "checks"
    /\ timeParams.fMinDifficulty
    /\ pblockBits # GetNextWorkRequired(medianTimePast, NarrowToUInt32(Max(medianTimePast + 1, nStart)))
    /\ nStart # 0 /\ nMockTime = 0 /\ ~timeParams.fFutureTimestampSoftFork
    /\ lastCheck.fSubmitted
    /\ lastCheck.hashTarget = SetCompact(pblockBits)

(***************************************************************************)
(* C40: on every path by which the thread's function exits (interruption,  *)
(* no miner address, a template that fails validation, a failure of the    *)
(* coinbase's proof or binding signature) the NotifyBlockTip subscription  *)
(* has been disconnected, so that the listener does not reach the flag and *)
(* the mutex of a thread that has exited.                                   *)
(***************************************************************************)
C40_DisconnectedOnExit == ~Running => ~Connected

=============================================================================
